---- MODULE Spec2Model ----
(***************************************************************************)
(* Page objects of capslock-qa-tests (SliderComponent, FormPage) driven    *)
(* against the page they automate.  The controller code is translated from *)
(* src/pages/FormPage.ts; the page is the carousel and the multi-step form *)
(* that the tests, the requirement comments and the defect notes of the    *)
(* repository describe.                                                    *)
(***************************************************************************)
EXTENDS Integers, Sequences, FiniteSets, TLC

\* ------------------------------------------------------------------ bounds
MaxSlides == 4
MaxClones == 2
MaxNav == 5
MaxFormOps == 3
MaxImages == 2
MaxReviewOps == 3
MaxCounter == 10
MaxPad == 1

\* --------------------------------------------------------------- variables
VARIABLES
  slideCount,      \* logical (non-clone) slides of both carousels
  clonesBefore,    \* clone elements the carousel puts before the first slide
  clonesAfter,     \* clone elements the carousel puts after the last slide
  currentSlide,    \* logical slide carrying .slick-current in the main carousel
  previewCurrent,  \* logical slide carrying .slick-current in the preview carousel
  settled,         \* TRUE when the current main slide has reached opacity 1
  indexAttr,       \* data-slick-index of the slides: "set" | "empty" | "absent"
  sPc,             \* position of the running slider operation: "idle" | "settle"
  sOp,             \* slider operation last called: "none" | "next" | "previous" | "thumb"
  sArg,            \* argument of the last clickPreviewThumbnail
  sBefore,         \* getActiveSlideIndex() read by the test before the last call
  sClicked,        \* the element the last call clicked
  nNext, nPrev, nThumb,  \* calls made so far, by kind
  sReadOp,         \* the read or assertion of SliderComponent last called
  sRead,           \* what that call returned or threw
  defect002,       \* the email step shows "Submit" where "Next" is required
  defect003,       \* the phone step is missing: email leads to the thank-you
  defect004,       \* the thank-you shows in place, the address stays the same
  step,            \* the step the form shows: "zip" | "email" | "phone" | "thanks"
  pendingStep,     \* the step the form is about to reveal, or "none"
  inputValue,      \* field -> text typed into its input
  errorText,       \* field -> text of its error block, Null when it shows none
  url,             \* the page address
  accepted,        \* fields whose value the form has accepted, in order
  data,            \* the FormData the test works with
  fOp,             \* form operation last called
  fArg,            \* field argument of the last expectValidationError
  fPc,             \* position of the running form operation
  fRes,            \* outcome of the last form operation
  calls,           \* form operations called so far, in order
  rOpened,         \* the reviews container carries the class reviewWrap_opened
  rLabel,          \* text of .moreless__txt
  rFullVisible,    \* .reviewFull is displayed
  rClicked,        \* a click on .moreless the page has not handled yet
  rRender,         \* what the page still has to bring in step with the class
  imageCount,      \* .review__img elements of the first gallery
  lbExists,        \* the page holds an .lg-outer element
  lbVisible,       \* the .lg-outer element carries lg-visible
  lbIndex,         \* position (0-based) of the image the overlay shows
  lbPending,       \* what the overlay is about to do: "none" | "show" | "hide" | "remove"
  lbCounter,       \* text of the counter element of the overlay
  rPc,             \* position of the running reviews operation
  rOp,             \* reviews operation last called
  rArg,            \* image index of the last clickReviewImage
  rRes,            \* outcome of the last reviews operation
  rExpected,       \* the flag value the running toggleShowMoreLess waits for
  rStart,          \* the three signals of the reviews section as loaded
  nToggle,         \* toggleShowMoreLess calls that have returned
  nReviewOps,      \* reviews operations called so far
  rReadOp,         \* getter of ReviewsComponent last called by a test
  rRead            \* what that getter returned

sliderVars == <<slideCount, clonesBefore, clonesAfter, currentSlide,
                previewCurrent, settled, indexAttr, sPc, sOp, sArg, sBefore,
                sClicked,
                nNext, nPrev, nThumb, sReadOp, sRead>>

formVars == <<defect002, defect003, defect004, step, pendingStep, inputValue,
              errorText, url, accepted, data, fOp, fArg, fPc, fRes, calls>>

reviewsVars == <<rOpened, rLabel, rFullVisible, rClicked, rRender, imageCount,
                 lbExists, lbVisible, lbIndex, lbPending, rPc, rOp, rArg, rRes,
                 rExpected, rStart, nToggle, nReviewOps, lbCounter, rReadOp,
                 rRead>>

vars == <<sliderVars, formVars, reviewsVars>>

\* ------------------------------------------------------- text primitives
Null == <<"null">>

Digits == <<"0", "1", "2", "3", "4", "5", "6", "7", "8", "9">>

IsDigit(c) == \E i \in 1..10 : Digits[i] = c

DigitVal(c) == (CHOOSE i \in 1..10 : Digits[i] = c) - 1

\* String(n) for the small indices the carousel writes into data-slick-index
IntToStr(n) ==
  LET d(m) == IF m < 10 THEN <<Digits[m + 1]>>
              ELSE <<Digits[(m \div 10) + 1], Digits[(m % 10) + 1]>>
  IN IF n < 0 THEN <<"-">> \o d(0 - n) ELSE d(n)

RECURSIVE ParseDigits(_, _)
ParseDigits(s, acc) ==
  IF s = <<>> \/ ~IsDigit(Head(s)) THEN acc
  ELSE ParseDigits(Tail(s), acc * 10 + DigitVal(Head(s)))

NaN == "NaN"

\* parseInt(s, 10): optional sign, then the leading decimal digits
ParseInt(s) ==
  LET neg == s # <<>> /\ Head(s) = "-"
      body == IF neg THEN Tail(s) ELSE s
  IN IF body = <<>> \/ ~IsDigit(Head(body)) THEN NaN
     ELSE IF neg THEN 0 - ParseDigits(body, 0) ELSE ParseDigits(body, 0)

RECURSIVE SplitFrom(_, _, _)
SplitFrom(s, sep, cur) ==
  IF s = <<>> THEN <<cur>>
  ELSE IF Head(s) = sep THEN <<cur>> \o SplitFrom(Tail(s), sep, <<>>)
  ELSE SplitFrom(Tail(s), sep, Append(cur, Head(s)))

\* String.prototype.split(sep) for a one-character separator
Split(s, sep) == SplitFrom(s, sep, <<>>)

\* Array.prototype.pop(): the last element
Pop(a) == a[Len(a)]

Upper ==
  <<"A", "B", "C", "D", "E", "F", "G", "H", "I", "J", "K", "L", "M", "N",
    "O", "P", "Q", "R", "S", "T", "U", "V", "W", "X", "Y", "Z">>

Lower ==
  <<"a", "b", "c", "d", "e", "f", "g", "h", "i", "j", "k", "l", "m", "n",
    "o", "p", "q", "r", "s", "t", "u", "v", "w", "x", "y", "z">>

ToLower(c) ==
  IF \E i \in 1..26 : Upper[i] = c
  THEN Lower[CHOOSE i \in 1..26 : Upper[i] = c] ELSE c

\* the characters of the class [.*+?^${}()|[\]\\]
RegexSpecials ==
  {".", "*", "+", "?", "^", "$", "{", "}", "(", ")", "|", "[", "]", "\\"}

\* the alternatives of a regular expression source: split at every "|" that
\* is not escaped
RECURSIVE Alternatives(_, _)
Alternatives(src, cur) ==
  IF src = <<>> THEN <<cur>>
  ELSE IF Head(src) = "\\" /\ Len(src) >= 2
    THEN Alternatives(Tail(Tail(src)), cur \o <<"\\", src[2]>>)
  ELSE IF Head(src) = "|" THEN <<cur>> \o Alternatives(Tail(src), <<>>)
  ELSE Alternatives(Tail(src), Append(cur, Head(src)))

SameChar(a, b, ignoreCase) ==
  IF ignoreCase THEN ToLower(a) = ToLower(b) ELSE a = b

\* one alternative matched at the start of text: an escaped character and a
\* plain character stand for themselves, an unescaped "." for any character
RECURSIVE MatchHere(_, _, _)
MatchHere(pat, text, ignoreCase) ==
  IF pat = <<>> THEN TRUE
  ELSE IF Head(pat) = "\\" /\ Len(pat) >= 2
    THEN /\ text # <<>>
         /\ SameChar(pat[2], Head(text), ignoreCase)
         /\ MatchHere(Tail(Tail(pat)), Tail(text), ignoreCase)
  ELSE IF Head(pat) = "."
    THEN text # <<>> /\ MatchHere(Tail(pat), Tail(text), ignoreCase)
  ELSE /\ text # <<>>
       /\ SameChar(Head(pat), Head(text), ignoreCase)
       /\ MatchHere(Tail(pat), Tail(text), ignoreCase)

\* RegExp.prototype.test: some alternative matches somewhere in text
RegexTest(src, ignoreCase, text) ==
  \E a \in 1..Len(Alternatives(src, <<>>)) :
    \E k \in 1..(Len(text) + 1) :
      MatchHere(Alternatives(src, <<>>)[a], SubSeq(text, k, Len(text)),
                ignoreCase)

\* ---------------------------------------------------------- test data
Undefined == <<"undefined">>

validZip == <<"1", "2", "3", "4", "5">>

validEmail ==
  <<"j", "o", "h", "n", ".", "d", "o", "e", "@", "e", "x", "a", "m", "p",
    "l", "e", ".", "c", "o", "m">>

validPhone == <<"1", "2", "3", "4", "5", "6", "7", "8", "9", "0">>

validFormData == [zip |-> validZip, email |-> validEmail, phone |-> validPhone]

invalidEmailFormats ==
  {<<"i", "n", "v", "a", "l", "i", "d", "-", "e", "m", "a", "i", "l">>,
   <<"i", "n", "v", "a", "l", "i", "d", "@">>,
   <<"@", "i", "n", "v", "a", "l", "i", "d", ".", "c", "o", "m">>,
   <<"i", "n", "v", "a", "l", "i", "d", "@", ".", "c", "o", "m">>,
   <<"i", "n", "v", "a", "l", "i", "d", "@", "c", "o", "m">>,
   <<>>}

invalidZipCodes ==
  {<<"1", "2", "3", "4">>,
   <<"1", "2", "3", "4", "5", "6">>,
   <<"a", "b", "c", "d">>,
   <<"1", "2", "3", "4", "a">>,
   <<"1", "2", "-", "4", "5">>,
   <<>>}

invalidPhoneNumbers ==
  {<<"1", "2", "3", "4", "5", "6", "7", "8", "9">>,
   <<"1", "2", "3", "4", "5", "6", "7", "8", "9", "0", "1">>,
   <<"a", "b", "c", "d">>,
   <<"1", "2", "3", "-", "4", "5", "6", "-", "7", "8", "9", "0">>,
   <<"(", "1", "2", "3", ")", "4", "5", "6", "-", "7", "8", "9", "0">>,
   <<"1", "2", "3", " ", "4", "5", "6", " ", "7", "8", "9", "0">>,
   <<>>}

\* the FormData a test works with: every combination of present and absent
\* fields, with at most one field carrying one of the invalid values
FormDataSet ==
  {d \in [zip   : {Undefined, validZip} \cup invalidZipCodes,
          email : {Undefined, validEmail} \cup invalidEmailFormats,
          phone : {Undefined, validPhone} \cup invalidPhoneNumbers] :
     Cardinality({f \in {"zip", "email", "phone"} :
                    d[f] \notin {Undefined, validFormData[f]}}) <= 1}

\* ------------------------------------------------------------- the page
\* image references: the main image and its thumbnail share the base name
\* and differ in directory, content hash and extension (slide-3.3f69c48b.jpg)
BaseName(i) == <<"s", "-">> \o IntToStr(i)

MainSrc(i) == <<"/", "i", "/">> \o BaseName(i) \o <<".", "a", "1", ".", "j">>

PreviewSrc(i) == <<"/", "t", "/">> \o BaseName(i) \o <<".", "b", "2", ".", "p">>

Mod(i, n) == ((i % n) + n) % n

\* one element of a carousel track
Slide(itemClass, pos, isClone, isCurrent, opaque, src) ==
  [classes |-> {itemClass, "slick-slide"}
                 \cup (IF isClone THEN {"slick-cloned"} ELSE {})
                 \cup (IF isCurrent THEN {"slick-current", "slick-active"} ELSE {}),
   index   |-> CASE indexAttr = "set" -> IntToStr(pos)
                 [] indexAttr = "empty" -> <<>>
                 [] OTHER -> Null,
   opacity |-> IF opaque THEN 1 ELSE 0,
   src     |-> src,
   visible |-> TRUE]

\* the track of a carousel: clones of the last slides, the slides, clones of
\* the first slides; only a real slide carries the current marker
Track(itemClass, cur, opaque, srcOf) ==
  [k \in 1..(clonesBefore + slideCount + clonesAfter) |->
     LET pos == k - 1 - clonesBefore
         isClone == pos < 0 \/ pos >= slideCount
     IN Slide(itemClass, pos, isClone, ~isClone /\ pos = cur,
              IF ~isClone /\ pos = cur THEN opaque ELSE isClone,
              srcOf[Mod(pos, slideCount)])]

MainDom ==
  Track("sliderDefault__item", currentSlide, settled,
        [i \in 0..(slideCount - 1) |-> MainSrc(i)])

PreviewDom ==
  Track("sliderPrev__item", previewCurrent, TRUE,
        [i \in 0..(slideCount - 1) |-> PreviewSrc(i)])

\* the page's reaction to a click on an arrow or on a thumbnail: both
\* carousels move to the target slide and the incoming slide fades in
PageGoTo(target) ==
  /\ currentSlide' = target
  /\ previewCurrent' = target
  /\ settled' = (target = currentSlide /\ settled)

PageClick(selector, el) ==
  CASE selector = ".slick-next" -> PageGoTo(Mod(currentSlide + 1, slideCount))
    [] selector = ".slick-prev" -> PageGoTo(Mod(currentSlide - 1, slideCount))
    [] OTHER -> PageGoTo(Mod(ParseInt(el.index), slideCount))

\* the fade of the incoming slide completes
PageSettle ==
  /\ ~settled
  /\ settled' = TRUE
  /\ UNCHANGED <<slideCount, indexAttr, clonesBefore, clonesAfter,
                 currentSlide, previewCurrent, sPc, sOp, sArg, sBefore,
                 sClicked, nNext, nPrev, nThumb, sReadOp, sRead>>
  /\ UNCHANGED formVars
  /\ UNCHANGED reviewsVars

\* ------------------------------------------------- SliderComponent (code)
Has(el, cls) == cls \in el.classes

Ok(v) == [ok |-> TRUE, val |-> v]

Fail(e) == [ok |-> FALSE, val |-> e]

prevButton == ".slick-prev"

\* a next arrow resolved with the selector of the previous arrow
nextButton_prevSelector == ".slick-prev"

nextButton == ".slick-next"

\* the slides counted without the :not(.slick-cloned) filter
getTotalSlidesCount_withClones ==
  Len(SelectSeq(MainDom, LAMBDA el : Has(el, "sliderDefault__item")))

getTotalSlidesCount ==
  Len(SelectSeq(MainDom, LAMBDA el :
        Has(el, "sliderDefault__item") /\ ~Has(el, "slick-cloned")))

\* locator(...).first(): the matching elements, of which the first is used
getActiveSlide ==
  SelectSeq(MainDom, LAMBDA el :
    Has(el, "sliderDefault__item") /\ Has(el, "slick-current"))

getActivePreviewSlide ==
  SelectSeq(PreviewDom, LAMBDA el :
    Has(el, "sliderPrev__item") /\ Has(el, "slick-current"))

\* the index tested for truthiness after conversion: position 0 reads as absent
IndexOrMinusOne_zeroFalsy(index) ==
  IF index # Null /\ index # <<>> /\ ParseInt(index) # 0
  THEN ParseInt(index) ELSE 0 - 1

\* the index tested against null only and converted with Number, which
\* takes the empty string to 0
IndexOrMinusOne_emptyAsZero(index) ==
  IF index = Null THEN 0 - 1 ELSE IF index = <<>> THEN 0 ELSE ParseInt(index)

\* index ? parseInt(index, 10) : -1
IndexOrMinusOne(index) ==
  IF index # Null /\ index # <<>> THEN ParseInt(index) ELSE 0 - 1

\* the index read without the expectation on the active slide
getActiveSlideIndex_noExpect ==
  IF getActiveSlide = <<>> THEN Ok(IndexOrMinusOne(Null))
  ELSE Ok(IndexOrMinusOne(getActiveSlide[1].index))

getActiveSlideIndex ==
  IF getActiveSlide = <<>> THEN Fail("ElementNotFound")
  ELSE Ok(IndexOrMinusOne(getActiveSlide[1].index))

getActivePreviewIndex ==
  IF getActivePreviewSlide = <<>> THEN Fail("ElementNotFound")
  ELSE Ok(IndexOrMinusOne(getActivePreviewSlide[1].index))

getActiveSlideImageSrc ==
  IF getActiveSlide = <<>> THEN Fail("ElementNotFound")
  ELSE Ok(getActiveSlide[1].src)

getActivePreviewImageSrc ==
  IF getActivePreviewSlide = <<>> THEN Fail("ElementNotFound")
  ELSE Ok(getActivePreviewSlide[1].src)

\* the reference cut at its first full stop, directory included
imageFilename_keepDirectory(src) ==
  IF src = Null THEN <<>> ELSE Split(src, ".")[1]

\* the file name kept whole, content hash and extension included
imageFilename_keepHash(src) ==
  IF src = Null THEN <<>> ELSE Pop(Split(src, "/"))

\* src?.split('/').pop()?.split('.')[0] || ''
imageFilename(src) ==
  IF src = Null THEN <<>> ELSE Split(Pop(Split(src, "/")), ".")[1]

expectSlidersSynchronized ==
  IF ~getActiveSlideIndex.ok THEN getActiveSlideIndex
  ELSE IF ~getActivePreviewIndex.ok THEN getActivePreviewIndex
  ELSE IF getActivePreviewIndex.val = getActiveSlideIndex.val THEN Ok(TRUE)
  ELSE Fail("AssertionMismatch")

expectActiveImagesMatch ==
  IF ~getActiveSlideImageSrc.ok THEN getActiveSlideImageSrc
  ELSE IF ~getActivePreviewImageSrc.ok THEN getActivePreviewImageSrc
  ELSE IF imageFilename(getActiveSlideImageSrc.val)
            = imageFilename(getActivePreviewImageSrc.val) THEN Ok(TRUE)
  ELSE Fail("AssertionMismatch")

\* the predicate without the test on the opacity
transitionComplete_markerOnly == getActiveSlide # <<>>

\* the predicate waitForSlideTransition polls in the page
transitionComplete ==
  /\ getActiveSlide # <<>>
  /\ getActiveSlide[1].opacity = 1

\* the thumbnails selected without the :not(.slick-cloned) filter
previewItems_withClones ==
  SelectSeq(PreviewDom, LAMBDA el : Has(el, "sliderPrev__item"))

\* this.previewSlider.locator('.sliderPrev__item:not(.slick-cloned)')
previewItems ==
  SelectSeq(PreviewDom, LAMBDA el :
    Has(el, "sliderPrev__item") /\ ~Has(el, "slick-cloned"))

\* the time limit of one test, which ends every wait that names no timeout
testTimeout == 30000

\* the bounds with the test limit switched off (timeout 0 disables a limit)
waitBound_noTestTimeout(at) ==
  CASE at \in {"settle", "toggleWait", "closeHidden", "closeGone"} -> 1000
    [] at = "lbShown" -> 2000
    [] at \in {"submitUrl", "thankUrl"} -> 10000
    [] at \in {"error", "class", "label", "region"} -> 5000
    [] OTHER -> 0

\* the bound, in milliseconds, of the wait an operation is suspended on at
\* a position; 0 stands for a wait without a limit
waitBound(at) ==
  CASE at \in {"settle", "toggleWait", "closeHidden", "closeGone"} -> 1000
    [] at = "lbShown" -> 2000
    [] at \in {"submitUrl", "thankUrl"} -> 10000
    [] at \in {"error", "class", "label", "region"} -> 5000
    [] OTHER -> testTimeout

NoElement == [classes |-> {}, index |-> Null, opacity |-> 0, src |-> Null,
              visible |-> FALSE]

\* mainSlider.locator('.sliderDefault__item'): every element of the track
mainSliderItems ==
  SelectSeq(MainDom, LAMBDA el : Has(el, "sliderDefault__item"))

\* the element whose image expectSlideImageLoaded(index) looks at:
\* mainSliderItems.nth(index)
slideChecked(index) ==
  IF index < Len(mainSliderItems) THEN <<mainSliderItems[index + 1]>> ELSE <<>>

\* the image of that element is expected visible, its own opacity above 0;
\* the image of a slide carries a source and no opacity of its own
expectSlideImageLoaded(index) ==
  IF slideChecked(index) = <<>> THEN Fail("ElementNotFound")
  ELSE IF slideChecked(index)[1].visible /\ slideChecked(index)[1].src # Null
       THEN Ok(TRUE)
  ELSE Fail("AssertionMismatch")

\* the test reads the active index, then calls the operation; the button is
\* awaited visible, clicked, and the operation goes on to its settle-wait
ClickArrow(op, selector) ==
  /\ sPc = "idle"
  /\ nNext + nPrev + nThumb < MaxNav
  /\ getActiveSlideIndex.ok
  /\ sBefore' = getActiveSlideIndex.val
  /\ sOp' = op
  /\ sClicked' = NoElement
  /\ PageClick(selector, NoElement)
  /\ sPc' = "settle"
  /\ UNCHANGED <<slideCount, indexAttr, clonesBefore, clonesAfter, sArg,
                 sReadOp, sRead>>
  /\ UNCHANGED formVars
  /\ UNCHANGED reviewsVars

clickNext ==
  /\ ClickArrow("next", nextButton)
  /\ nNext' = nNext + 1
  /\ UNCHANGED <<nPrev, nThumb>>

clickPrevious ==
  /\ ClickArrow("previous", prevButton)
  /\ nPrev' = nPrev + 1
  /\ UNCHANGED <<nNext, nThumb>>

clickPreviewThumbnail ==
  \E index \in 0..(slideCount - 1) :
    /\ sPc = "idle"
    /\ nNext + nPrev + nThumb < MaxNav
    /\ getActiveSlideIndex.ok
    /\ index < Len(previewItems)
    /\ previewItems[index + 1].visible
    /\ sBefore' = getActiveSlideIndex.val
    /\ sOp' = "thumb"
    /\ sArg' = index
    /\ sClicked' = previewItems[index + 1]
    /\ PageClick(".sliderPrev__item", previewItems[index + 1])
    /\ sPc' = "settle"
    /\ nThumb' = nThumb + 1
    /\ UNCHANGED <<slideCount, indexAttr, clonesBefore, clonesAfter, nNext,
                   nPrev, sReadOp, sRead>>
    /\ UNCHANGED formVars
    /\ UNCHANGED reviewsVars

\* waitForFunction returns once the current slide is at full opacity
waitForSlideTransition ==
  /\ sPc = "settle"
  /\ transitionComplete
  /\ sPc' = "idle"
  /\ UNCHANGED <<slideCount, indexAttr, clonesBefore, clonesAfter,
                 currentSlide, previewCurrent, settled, sOp, sArg, sBefore,
                 sClicked, nNext, nPrev, nThumb, sReadOp, sRead>>
  /\ UNCHANGED formVars
  /\ UNCHANGED reviewsVars

\* the 1000 ms of waitForFunction run out before the current slide is at
\* full opacity: the navigation throws
waitForSlideTransition_timeout ==
  /\ sPc = "settle"
  /\ ~transitionComplete
  /\ waitBound(sPc) > 0
  /\ sPc' = "failed"
  /\ UNCHANGED <<slideCount, indexAttr, clonesBefore, clonesAfter,
                 currentSlide, previewCurrent, settled, sOp, sArg, sBefore,
                 sClicked, nNext, nPrev, nThumb, sReadOp, sRead>>
  /\ UNCHANGED formVars
  /\ UNCHANGED reviewsVars

\* a read that moves the carousel on to the next slide
SliderRead_navigating(op, result) ==
  /\ sReadOp' = op
  /\ sRead' = result
  /\ PageClick(nextButton, NoElement)
  /\ UNCHANGED <<slideCount, indexAttr, clonesBefore, clonesAfter, sPc, sOp,
                 sArg, sBefore, sClicked, nNext, nPrev, nThumb>>
  /\ UNCHANGED formVars
  /\ UNCHANGED reviewsVars

\* a read or an assertion of SliderComponent called by a test while no
\* navigation is running
SliderRead(op, result) ==
  /\ sReadOp' = op
  /\ sRead' = result
  /\ UNCHANGED <<slideCount, indexAttr, clonesBefore, clonesAfter,
                 currentSlide, previewCurrent, settled, sPc, sOp, sArg,
                 sBefore, sClicked, nNext, nPrev, nThumb>>
  /\ UNCHANGED formVars
  /\ UNCHANGED reviewsVars

getTotalSlidesCount_call ==
  /\ sPc = "idle"
  /\ SliderRead("getTotalSlidesCount", Ok(getTotalSlidesCount))

getActiveSlideIndex_call ==
  /\ sPc = "idle"
  /\ SliderRead("getActiveSlideIndex", getActiveSlideIndex)

getActivePreviewIndex_call ==
  /\ sPc = "idle"
  /\ SliderRead("getActivePreviewIndex", getActivePreviewIndex)

expectSlidersSynchronized_call ==
  /\ sPc = "idle"
  /\ SliderRead("expectSlidersSynchronized", expectSlidersSynchronized)

expectActiveImagesMatch_call ==
  /\ sPc = "idle"
  /\ SliderRead("expectActiveImagesMatch", expectActiveImagesMatch)

\* ------------------------------------------------------ the form page
homeUrl ==
  <<"h", "t", "t", "p", "s", ":", "/", "/", "t", "e", "s", "t", "-", "q",
    "a", ".", "c", "a", "p", "s", "l", "o", "c", "k", ".", "g", "l", "o",
    "b", "a", "l", "/">>

thankYouUrl == homeUrl \o <<"t", "h", "a", "n", "k", "-", "y", "o", "u">>

AllDigits(v) == \A i \in 1..Len(v) : IsDigit(v[i])

\* requirement 2: exactly 5 digits
ZipValid(v) == Len(v) = 5 /\ AllDigits(v)

\* requirement 4: exactly 10 digits
PhoneValid(v) == Len(v) = 10 /\ AllDigits(v)

\* requirement 3: local@domain.tld
EmailValid(v) ==
  LET parts == Split(v, "@")
  IN /\ Len(parts) = 2
     /\ parts[1] # <<>>
     /\ LET labels == Split(parts[2], ".")
        IN Len(labels) >= 2 /\ \A i \in 1..Len(labels) : labels[i] # <<>>

FieldValid(f, v) ==
  CASE f = "zip" -> ZipValid(v)
    [] f = "email" -> EmailValid(v)
    [] f = "phone" -> PhoneValid(v)

\* the two messages of each field: invalid format, empty field
errorMessageMap ==
  [zip   |-> [invalid |-> <<"W", "r", "o", "n", "g", " ", "Z", "I", "P", " ",
                            "c", "o", "d", "e", ".">>,
              empty   |-> <<"E", "n", "t", "e", "r", " ", "y", "o", "u", "r",
                            " ", "Z", "I", "P", " ", "c", "o", "d", "e", ".">>],
   email |-> [invalid |-> <<"W", "r", "o", "n", "g", " ", "e", "m", "a", "i",
                            "l", ".">>,
              empty   |-> <<"E", "n", "t", "e", "r", " ", "y", "o", "u", "r",
                            " ", "e", "m", "a", "i", "l", " ", "a", "d", "d",
                            "r", "e", "s", "s", ".">>],
   phone |-> [invalid |-> <<"W", "r", "o", "n", "g", " ", "p", "h", "o", "n",
                            "e", " ", "n", "u", "m", "b", "e", "r", ".">>,
              empty   |-> <<"E", "n", "t", "e", "r", " ", "y", "o", "u", "r",
                            " ", "p", "h", "o", "n", "e", " ", "n", "u", "m",
                            "b", "e", "r", ".">>]]

\* the message the form shows for a rejected value
PageMessage(f, v) ==
  IF v = <<>> THEN errorMessageMap[f].empty ELSE errorMessageMap[f].invalid

\* the step that follows an accepted field
NextStepAfter(f) ==
  CASE f = "zip" -> "email"
    [] f = "email" -> IF defect003 THEN "thanks" ELSE "phone"
    [] f = "phone" -> "thanks"

InputVisible(f) == step = f

\* the commit button a step shows
ButtonVisible(b) ==
  CASE b = "next" -> step = "zip" \/ (step = "email" /\ ~defect002)
    [] b = "submit" -> (step = "email" /\ defect002) \/ step = "phone"
    [] OTHER -> FALSE

\* the [data-error-block] elements of the form container
ErrorBlocks ==
  [k \in 1..3 |->
     LET f == <<"zip", "email", "phone">>[k]
     IN [text    |-> IF errorText[f] = Null THEN <<>> ELSE errorText[f],
         visible |-> step = f /\ errorText[f] # Null]]

\* a click on the commit button of the step on display: the value is
\* validated, then either accepted (the next step gets revealed) or rejected
\* (the step's error block shows the message)
PageCommit ==
  LET f == step
      v == inputValue[f]
  IN IF FieldValid(f, v)
     THEN /\ errorText' = [errorText EXCEPT ![f] = Null]
          /\ pendingStep' = NextStepAfter(f)
          /\ accepted' = IF \E i \in 1..Len(accepted) : accepted[i] = f
                         THEN accepted ELSE Append(accepted, f)
     ELSE /\ errorText' = [errorText EXCEPT ![f] = PageMessage(f, v)]
          /\ UNCHANGED <<pendingStep, accepted>>

\* the form reveals the next step; the terminal step changes the address
\* unless the thank-you is shown in place
PageAdvance ==
  /\ pendingStep # "none"
  /\ step' = pendingStep
  /\ pendingStep' = "none"
  /\ url' = IF pendingStep = "thanks" /\ ~defect004 THEN thankYouUrl ELSE url
  /\ UNCHANGED <<defect002, defect003, defect004, inputValue, errorText,
                 accepted, data, fOp, fArg, fPc, fRes, calls>>
  /\ UNCHANGED sliderVars
  /\ UNCHANGED reviewsVars

ToUpper(c) ==
  IF \E i \in 1..26 : Lower[i] = c
  THEN Upper[CHOOSE i \in 1..26 : Lower[i] = c] ELSE c

RenderKinds == {"asIs", "upper", "lower", "within", "otherPunct", "cut"}

\* the ways a form may display a message in an error block: unchanged, in
\* capitals, in small letters, inside a longer text, with another
\* punctuation mark in place of each full stop, without its last character
Render(kind, msg) ==
  CASE kind = "upper" -> [k \in 1..Len(msg) |-> ToUpper(msg[k])]
    [] kind = "lower" -> [k \in 1..Len(msg) |-> ToLower(msg[k])]
    [] kind = "within" -> <<"*", " ">> \o msg \o <<" ", "*">>
    [] kind = "otherPunct" ->
         [k \in 1..Len(msg) |-> IF msg[k] = "." THEN "!" ELSE msg[k]]
    [] kind = "cut" -> SubSeq(msg, 1, Len(msg) - 1)
    [] OTHER -> msg

\* the texts the error block of field f may hold
BlockTexts(f) ==
  {Null} \cup {Render(kind, errorMessageMap[f][m]) :
                 kind \in RenderKinds, m \in {"invalid", "empty"}}

\* ------------------------------------------------------- FormPage (code)
fieldOrder == <<"zip", "email", "phone">>

\* the zip block without its click on the Next button
commitButton_noZipClick == <<"none", "submit", "none">>

\* what each block of fillForm clicks after filling its input
commitButton == <<"next", "submit", "none">>

\* the messages joined into the pattern without escaping
escapeChar_unescaped(c) == <<c>>

\* '\\$&' for a character of the class, the character itself otherwise
escapeChar(c) == IF c \in RegexSpecials THEN <<"\\", c>> ELSE <<c>>

\* msg.replace(/[.*+?^${}()|[\]\\]/g, '\\$&')
RECURSIVE escapeRegExp(_)
escapeRegExp(msg) ==
  IF msg = <<>> THEN <<>> ELSE escapeChar(Head(msg)) \o escapeRegExp(Tail(msg))

\* a pattern made of the words the messages of all fields begin with
combinedRegex_firstWords(fieldName) ==
  <<"W", "r", "o", "n", "g", "|", "E", "n", "t", "e", "r">>

\* [invalid, empty].map(escape).join('|')
combinedRegex(fieldName) ==
  escapeRegExp(errorMessageMap[fieldName].invalid) \o <<"|">>
    \o escapeRegExp(errorMessageMap[fieldName].empty)

\* expect(errorMessages.filter({ hasText: combinedRegex })).toBeVisible()
errorBlockVisible(fieldName) ==
  LET errorBlock == SelectSeq(ErrorBlocks, LAMBDA b :
                      RegexTest(combinedRegex(fieldName), TRUE, b.text))
  IN Len(errorBlock) = 1 /\ errorBlock[1].visible

thankPattern == <<"t", "h", "a", "n", "k">>

\* the terminal state taken from the thank-you message instead of the address
waitForURL_messageShown == step = "thanks"

\* page.waitForURL(/thank/i)
waitForURL == RegexTest(thankPattern, TRUE, url)

Pc(at, i) == [at |-> at, i |-> i]

Res(status, pc) == [status |-> status, at |-> pc.at, i |-> pc.i]

\* the first field from position i on that the data defines, 0 when none
firstPresent(i) ==
  IF \E j \in i..3 : data[fieldOrder[j]] # Undefined
  THEN CHOOSE j \in i..3 :
         /\ data[fieldOrder[j]] # Undefined
         /\ \A k \in i..(j - 1) : data[fieldOrder[k]] = Undefined
  ELSE 0

\* where the operation op goes on once the blocks before position i are done
continueFrom(i, op) ==
  IF i <= 3 /\ firstPresent(i) # 0 THEN Pc("wait", firstPresent(i))
  ELSE IF op = "fillAndSubmit" THEN Pc("submitClick", 0)
  ELSE Pc("idle", 0)

GoTo(pc) ==
  /\ fPc' = pc
  /\ fRes' = Res(IF pc.at = "idle" THEN "ok" ELSE "running", pc)

\* the conditions with the inputs filled without being awaited
waitCondition_noFieldWait(pc) ==
  CASE pc.at = "click" -> ButtonVisible(commitButton[pc.i])
    [] pc.at = "submitClick" -> ButtonVisible("submit")
    [] pc.at = "submitUrl" -> waitForURL
    [] pc.at = "error" -> errorBlockVisible(fArg)
    [] pc.at = "thankUrl" -> waitForURL
    [] OTHER -> TRUE

\* what the operation is suspended on at position pc
waitCondition(pc) ==
  CASE pc.at = "wait" -> InputVisible(fieldOrder[pc.i])
    [] pc.at = "click" -> ButtonVisible(commitButton[pc.i])
    [] pc.at = "submitClick" -> ButtonVisible("submit")
    [] pc.at = "submitUrl" -> waitForURL
    [] pc.at = "error" -> errorBlockVisible(fArg)
    [] pc.at = "thankUrl" -> waitForURL
    [] OTHER -> TRUE

failureOf(pc) ==
  CASE pc.at = "wait" -> "FieldNotReached"
    [] pc.at \in {"click", "submitClick"} -> "ElementNotFound"
    [] pc.at \in {"submitUrl", "thankUrl"} -> "TerminalNotReached"
    [] OTHER -> "AssertionMismatch"

pageUnchanged ==
  UNCHANGED <<defect002, defect003, defect004, step, pendingStep, inputValue,
              errorText, url, accepted>>

canCall ==
  /\ fPc.at = "idle"
  /\ Len(calls) < MaxFormOps

Call(op, arg, pc) ==
  /\ fOp' = op
  /\ fArg' = arg
  /\ calls' = Append(calls, [op |-> op, arg |-> arg])
  /\ GoTo(pc)
  /\ pageUnchanged
  /\ UNCHANGED data
  /\ UNCHANGED sliderVars
  /\ UNCHANGED reviewsVars

fillForm ==
  /\ canCall
  /\ Call("fillForm", "-", continueFrom(1, "fillForm"))

fillAndSubmit ==
  /\ canCall
  /\ Call("fillAndSubmit", "-", continueFrom(1, "fillAndSubmit"))

submit ==
  /\ canCall
  /\ Call("submit", "-", Pc("submitClick", 0))

expectValidationError ==
  \E fieldName \in {"zip", "email", "phone"} :
    /\ canCall
    /\ Call("expectValidationError", fieldName, Pc("error", 0))

expectThankYouRedirect ==
  /\ canCall
  /\ Call("expectThankYouRedirect", "-", Pc("thankUrl", 0))

\* input.waitFor({ state: 'visible' }); input.fill(value)
fillForm_fill ==
  /\ fPc.at = "wait"
  /\ waitCondition(fPc)
  /\ inputValue' = [inputValue EXCEPT ![fieldOrder[fPc.i]] = data[fieldOrder[fPc.i]]]
  /\ GoTo(IF commitButton[fPc.i] = "none" THEN continueFrom(fPc.i + 1, fOp)
          ELSE Pc("click", fPc.i))
  /\ UNCHANGED <<defect002, defect003, defect004, step, pendingStep,
                 errorText, url, accepted, data, fOp, fArg, calls>>
  /\ UNCHANGED sliderVars
  /\ UNCHANGED reviewsVars

\* nextButton.click() of the zip block, submitButton.click() of the email block
fillForm_click ==
  /\ fPc.at = "click"
  /\ waitCondition(fPc)
  /\ PageCommit
  /\ GoTo(continueFrom(fPc.i + 1, fOp))
  /\ UNCHANGED <<defect002, defect003, defect004, step, inputValue, url,
                 data, fOp, fArg, calls>>
  /\ UNCHANGED sliderVars
  /\ UNCHANGED reviewsVars

\* submitButton.click() of submit
submit_click ==
  /\ fPc.at = "submitClick"
  /\ waitCondition(fPc)
  /\ PageCommit
  /\ GoTo(Pc("submitUrl", 0))
  /\ UNCHANGED <<defect002, defect003, defect004, step, inputValue, url,
                 data, fOp, fArg, calls>>
  /\ UNCHANGED sliderVars
  /\ UNCHANGED reviewsVars

\* a wait of submit, expectValidationError or expectThankYouRedirect is
\* satisfied and the operation returns
waitSatisfied ==
  /\ fPc.at \in {"submitUrl", "error", "thankUrl"}
  /\ waitCondition(fPc)
  /\ GoTo(Pc("idle", 0))
  /\ pageUnchanged
  /\ UNCHANGED <<data, fOp, fArg, calls>>
  /\ UNCHANGED sliderVars
  /\ UNCHANGED reviewsVars

\* the bound of a wait expires: the page has come to rest without showing
\* what the operation waits for; the operation throws and the test ends
waitExpires ==
  /\ fPc.at \notin {"idle", "failed"}
  /\ ~waitCondition(fPc)
  /\ waitBound(fPc.at) > 0
  /\ pendingStep = "none"
  /\ fPc' = Pc("failed", fPc.i)
  /\ fRes' = Res(failureOf(fPc), fPc)
  /\ pageUnchanged
  /\ UNCHANGED <<data, fOp, fArg, calls>>
  /\ UNCHANGED sliderVars
  /\ UNCHANGED reviewsVars

\* the bound of a wait expires on a page of any speed: the page may still
\* owe the step it was asked for
waitExpires_anyPage ==
  /\ fPc.at \notin {"idle", "failed"}
  /\ ~waitCondition(fPc)
  /\ waitBound(fPc.at) > 0
  /\ fPc' = Pc("failed", fPc.i)
  /\ fRes' = Res(failureOf(fPc), fPc)
  /\ pageUnchanged
  /\ UNCHANGED <<data, fOp, fArg, calls>>
  /\ UNCHANGED sliderVars
  /\ UNCHANGED reviewsVars

\* the elements FormPage works on, all inside the first .formWrap_quiz
locators ==
  [formContainer |-> ".formWrap_quiz",
   zip           |-> "input[data-zip-code-input]",
   email         |-> "input[name=email][placeholder=Email Address]",
   phone         |-> "input[data-phone-input], input[name=phone]",
   next          |-> "button:has-text(Next)",
   submit        |-> "role=button[name=/submit/i]",
   errorMessages |-> "[data-error-block]"]

\* the element, or the address, the operation acts on at position pc
target(pc) ==
  CASE pc.at = "wait" -> locators[fieldOrder[pc.i]]
    [] pc.at = "click" -> locators[commitButton[pc.i]]
    [] pc.at = "submitClick" -> locators.submit
    [] pc.at = "error" -> locators.errorMessages
    [] OTHER -> "url"

\* ------------------------------------------------- FormComponent (code)
FormComponent_locators ==
  [formContainer |-> ".formWrap_quiz",
   zip           |-> "input[data-zip-code-input]",
   email         |-> "input[name=email][placeholder=Email Address]",
   phone         |-> "input[data-phone-input], input[name=phone]",
   next          |-> "button:has-text(Next)",
   submit        |-> "role=button[name=/submit/i]",
   errorMessages |-> "[data-error-block]"]

FormComponent_errorMessageMap ==
  [zip |->
     [invalid |-> <<"W", "r", "o", "n", "g", " ", "Z", "I", "P", " ", "c",
                  "o", "d", "e", ".">>,
      empty   |-> <<"E", "n", "t", "e", "r", " ", "y", "o", "u", "r", " ",
                  "Z", "I", "P", " ", "c", "o", "d", "e", ".">>],
   email |->
     [invalid |-> <<"W", "r", "o", "n", "g", " ", "e", "m", "a", "i", "l",
                  ".">>,
      empty   |-> <<"E", "n", "t", "e", "r", " ", "y", "o", "u", "r", " ",
                  "e", "m", "a", "i", "l", " ", "a", "d", "d", "r", "e",
                  "s", "s", ".">>],
   phone |->
     [invalid |-> <<"W", "r", "o", "n", "g", " ", "p", "h", "o", "n", "e",
                  " ", "n", "u", "m", "b", "e", "r", ".">>,
      empty   |-> <<"E", "n", "t", "e", "r", " ", "y", "o", "u", "r", " ",
                  "p", "h", "o", "n", "e", " ", "n", "u", "m", "b", "e",
                  "r", ".">>]]

\* the blocks of fillForm in the order of the text
FormComponent_fieldOrder == <<"zip", "email", "phone">>

\* the email block committing with the Next button
FormComponent_commitButton_nextAfterEmail == <<"next", "next", "none">>

\* the button each block of fillForm clicks after the fill
FormComponent_commitButton == <<"next", "submit", "none">>

FormComponent_combinedRegex(fieldName) ==
  escapeRegExp(FormComponent_errorMessageMap[fieldName].invalid) \o <<"|">>
    \o escapeRegExp(FormComponent_errorMessageMap[fieldName].empty)

FormComponent_errorBlockVisible(fieldName) ==
  LET errorBlock == SelectSeq(ErrorBlocks, LAMBDA b :
                      RegexTest(FormComponent_combinedRegex(fieldName), TRUE,
                                b.text))
  IN IF Len(errorBlock) = 1 THEN errorBlock[1].visible ELSE FALSE

FormComponent_firstPresent(i) ==
  IF \E j \in i..3 : data[FormComponent_fieldOrder[j]] # Undefined
  THEN CHOOSE j \in i..3 :
         /\ data[FormComponent_fieldOrder[j]] # Undefined
         /\ \A k \in i..(j - 1) : data[FormComponent_fieldOrder[k]] = Undefined
  ELSE 0

FormComponent_continueFrom(i, op) ==
  IF i <= 3 /\ FormComponent_firstPresent(i) # 0
  THEN Pc("wait", FormComponent_firstPresent(i))
  ELSE IF op = "fillAndSubmit" THEN Pc("submitClick", 0)
  ELSE Pc("idle", 0)

\* where each operation of FormComponent starts
FormComponent_entry(op) ==
  CASE op \in {"fillForm", "fillAndSubmit"} -> FormComponent_continueFrom(1, op)
    [] op = "submit" -> Pc("submitClick", 0)
    [] op = "expectValidationError" -> Pc("error", 0)
    [] op = "expectThankYouRedirect" -> Pc("thankUrl", 0)
    [] OTHER -> Pc("idle", 0)

\* where the operation goes on once the step at position pc is done
FormComponent_next(pc, op) ==
  CASE pc.at = "wait" ->
         IF FormComponent_commitButton[pc.i] = "none"
         THEN FormComponent_continueFrom(pc.i + 1, op)
         ELSE Pc("click", pc.i)
    [] pc.at = "click" -> FormComponent_continueFrom(pc.i + 1, op)
    [] pc.at = "submitClick" -> Pc("submitUrl", 0)
    [] OTHER -> Pc("idle", 0)

FormComponent_waitCondition(pc) ==
  CASE pc.at = "wait" -> InputVisible(FormComponent_fieldOrder[pc.i])
    [] pc.at = "click" -> ButtonVisible(FormComponent_commitButton[pc.i])
    [] pc.at = "submitClick" -> ButtonVisible("submit")
    [] pc.at = "submitUrl" -> waitForURL
    [] pc.at = "error" -> FormComponent_errorBlockVisible(fArg)
    [] pc.at = "thankUrl" -> waitForURL
    [] OTHER -> TRUE

FormComponent_target(pc) ==
  CASE pc.at = "wait" -> FormComponent_locators[FormComponent_fieldOrder[pc.i]]
    [] pc.at = "click" ->
         FormComponent_locators[FormComponent_commitButton[pc.i]]
    [] pc.at = "submitClick" -> FormComponent_locators.submit
    [] pc.at = "error" -> FormComponent_locators.errorMessages
    [] OTHER -> "url"

\* ------------------------------------------------- the reviews section
showMore == "Show more"

showLess == "Show less"

\* the label that goes with the state class
labelFor(opened) == IF opened THEN showLess ELSE showMore

ContainerClasses ==
  {"reviewWrap", "reviewWrap_type3"}
    \cup (IF rOpened THEN {"reviewWrap_opened"} ELSE {})

\* the page handles a click on .moreless: the state class flips, the label
\* and the detail region follow
PageToggle ==
  /\ rClicked
  /\ rClicked' = FALSE
  /\ rOpened' = ~rOpened
  /\ rRender' = {"label", "region"}
  /\ UNCHANGED <<rLabel, rFullVisible, imageCount, lbExists, lbVisible,
                 lbIndex, lbCounter, lbPending, rPc, rOp, rArg, rRes,
                 rExpected, rStart, rReadOp, rRead, nToggle, nReviewOps>>
  /\ UNCHANGED sliderVars
  /\ UNCHANGED formVars

\* the page brings the label or the detail region in step with the class
PageRender ==
  \E signal \in rRender :
    /\ rRender' = rRender \ {signal}
    /\ rLabel' = IF signal = "label" THEN labelFor(rOpened) ELSE rLabel
    /\ rFullVisible' = IF signal = "region" THEN rOpened ELSE rFullVisible
    /\ UNCHANGED <<rOpened, rClicked, imageCount, lbExists, lbVisible,
                   lbIndex, lbCounter, lbPending, rPc, rOp, rArg, rRes,
                   rExpected, rStart, rReadOp, rRead, nToggle, nReviewOps>>
    /\ UNCHANGED sliderVars
    /\ UNCHANGED formVars

\* the overlay of the gallery; its counter reads "<current> / <total>"
CounterText(i) == IntToStr(i + 1) \o <<" ", "/", " ">> \o IntToStr(imageCount)

\* the elements matching .lg-outer.lg-visible
LightboxDom ==
  IF lbExists /\ lbVisible
  THEN <<[classes |-> {"lg-outer", "lg-visible"}, counter |-> lbCounter,
          visible |-> TRUE]>>
  ELSE <<>>

\* a click on the image of position i opens the overlay on that image
PageOpenGallery(i) ==
  /\ lbExists' = TRUE
  /\ lbVisible' = FALSE
  /\ lbIndex' = i
  /\ lbCounter' = CounterText(i)
  /\ lbPending' = "show"

PageLightboxShow ==
  /\ lbPending = "show"
  /\ lbVisible' = TRUE
  /\ lbPending' = "none"
  /\ UNCHANGED <<rOpened, rLabel, rFullVisible, rClicked, rRender, imageCount,
                 lbExists, lbIndex, lbCounter, rPc, rOp, rArg, rRes,
                 rExpected, rStart, rReadOp, rRead, nToggle, nReviewOps>>
  /\ UNCHANGED sliderVars
  /\ UNCHANGED formVars

\* closing: the visible marker is taken off, then the element is removed
PageLightboxHide ==
  /\ lbPending = "hide"
  /\ lbVisible' = FALSE
  /\ lbPending' = "remove"
  /\ UNCHANGED <<rOpened, rLabel, rFullVisible, rClicked, rRender, imageCount,
                 lbExists, lbIndex, lbCounter, rPc, rOp, rArg, rRes,
                 rExpected, rStart, rReadOp, rRead, nToggle, nReviewOps>>
  /\ UNCHANGED sliderVars
  /\ UNCHANGED formVars

PageLightboxRemove ==
  /\ lbPending = "remove"
  /\ lbExists' = FALSE
  /\ lbPending' = "none"
  /\ UNCHANGED <<rOpened, rLabel, rFullVisible, rClicked, rRender, imageCount,
                 lbVisible, lbIndex, lbCounter, rPc, rOp, rArg, rRes,
                 rExpected, rStart, rReadOp, rRead, nToggle, nReviewOps>>
  /\ UNCHANGED sliderVars
  /\ UNCHANGED formVars

\* ----------------------------------------------- ReviewsComponent (code)
\* classes?.includes('reviewWrap_opened') || false
isExpanded == "reviewWrap_opened" \in ContainerClasses

\* this.page.locator('.lg-outer.lg-visible'), visible
lightboxVisible == LightboxDom # <<>> /\ LightboxDom[1].visible

\* the class with the blank as its only member
IsSpace_blankOnly(c) == c = " "

\* \s: blank, tab, line feed
IsSpace(c) == c \in {" ", "\t", "\n"}

\* the last position of the run of characters satisfying digit/space that
\* starts at position k; k - 1 when the run is empty
RunEnd(s, k, digits) ==
  LET ends == {j \in (k - 1)..Len(s) :
                 \A m \in k..j : IF digits THEN IsDigit(s[m]) ELSE IsSpace(s[m])}
  IN CHOOSE j \in ends : \A x \in ends : x <= j

\* /(\d+)\s*\/\s*(\d+)/ matched at position k
CounterMatchAt(s, k) ==
  LET d1 == RunEnd(s, k, TRUE)
      s1 == RunEnd(s, d1 + 1, FALSE)
      s2 == RunEnd(s, s1 + 2, FALSE)
      d2 == RunEnd(s, s2 + 1, TRUE)
      found == /\ d1 >= k
               /\ s1 + 1 <= Len(s)
               /\ s[s1 + 1] = "/"
               /\ d2 >= s2 + 1
  IN [found   |-> found,
      current |-> IF found THEN SubSeq(s, k, d1) ELSE <<>>,
      total   |-> IF found THEN SubSeq(s, s2 + 1, d2) ELSE <<>>]

\* String.prototype.match: the leftmost match, if any
CounterMatch(s) ==
  IF \E k \in 1..Len(s) : CounterMatchAt(s, k).found
  THEN CounterMatchAt(s, CHOOSE k \in 1..Len(s) :
         /\ CounterMatchAt(s, k).found
         /\ \A j \in 1..(k - 1) : ~CounterMatchAt(s, j).found)
  ELSE [found |-> FALSE, current |-> <<>>, total |-> <<>>]

\* the getter reporting the position counted from 0
getCurrentImageIndex_zeroBased ==
  IF LightboxDom = <<>> THEN Fail("ElementNotFound")
  ELSE Ok(IF CounterMatch(LightboxDom[1].counter).found
          THEN ParseInt(CounterMatch(LightboxDom[1].counter).current) - 1
          ELSE 0)

\* match ? parseInt(match[1], 10) : 0
getCurrentImageIndex ==
  IF LightboxDom = <<>> THEN Fail("ElementNotFound")
  ELSE Ok(IF CounterMatch(LightboxDom[1].counter).found
          THEN ParseInt(CounterMatch(LightboxDom[1].counter).current) ELSE 0)

getTotalImageCount ==
  IF LightboxDom = <<>> THEN Fail("ElementNotFound")
  ELSE Ok(IF CounterMatch(LightboxDom[1].counter).found
          THEN ParseInt(CounterMatch(LightboxDom[1].counter).total) ELSE 0)

\* a getter of ReviewsComponent called by a test while no operation runs
ReviewsRead(op, result) ==
  /\ rReadOp' = op
  /\ rRead' = result
  /\ UNCHANGED <<rOpened, rLabel, rFullVisible, rClicked, rRender, imageCount,
                 lbExists, lbVisible, lbIndex, lbCounter, lbPending, rPc, rOp,
                 rArg, rRes, rExpected, rStart, nToggle, nReviewOps>>
  /\ UNCHANGED sliderVars
  /\ UNCHANGED formVars

getCurrentImageIndex_call ==
  /\ rPc = "idle"
  /\ ReviewsRead("getCurrentImageIndex", getCurrentImageIndex)

getTotalImageCount_call ==
  /\ rPc = "idle"
  /\ ReviewsRead("getTotalImageCount", getTotalImageCount)

\* the flag a toggle started at the flag value expanded waits for, taken
\* without the negation
toggleTarget_sameFlag(expanded) == expanded

\* !isCurrentlyExpanded
toggleTarget(expanded) == ~expanded

\* the assertions without the one on the detail region
assertionOrder_noRegion == <<"class", "label">>

\* expectCollapsed / expectExpanded assert the class, the label, the region
assertionOrder == <<"class", "label", "region">>

\* closeLightbox returning once the close button has been clicked
closedCondition_afterClick == TRUE

\* !lightbox || lightbox.classList.contains('lg-visible') === false
closedCondition ==
  IF LightboxDom = <<>> THEN TRUE
  ELSE "lg-visible" \notin LightboxDom[1].classes

\* what the reviews operation is suspended on at position at
reviewsCondition(at) ==
  CASE at = "toggleWait" -> isExpanded = rExpected
    [] at = "class" -> isExpanded = (rOp = "expectExpanded")
    [] at = "label" -> rLabel = labelFor(rOp = "expectExpanded")
    [] at = "region" -> rFullVisible = (rOp = "expectExpanded")
    [] at = "imgClick" -> rArg < imageCount /\ ~lbExists
    [] at = "lbShown" -> lightboxVisible
    [] at = "closeBtn" -> lightboxVisible
    [] at = "closeHidden" -> ~lightboxVisible
    [] at = "closeGone" -> closedCondition
    [] OTHER -> TRUE

reviewsNext(at) ==
  CASE \E k \in 1..(Len(assertionOrder) - 1) : assertionOrder[k] = at ->
         assertionOrder[(CHOOSE k \in 1..Len(assertionOrder) :
                           assertionOrder[k] = at) + 1]
    [] at = "imgClick" -> "lbShown"
    [] at = "closeBtn" -> "closeHidden"
    [] at = "closeHidden" -> "closeGone"
    [] OTHER -> "idle"

reviewsFailure(at) ==
  CASE at \in {"class", "label", "region"} -> "AssertionMismatch"
    [] at \in {"imgClick", "closeBtn"} -> "ElementNotFound"
    [] OTHER -> "TransitionTimeout"

RRes(status, at) == [status |-> status, at |-> at]

RGoTo(at) ==
  /\ rPc' = at
  /\ rRes' = RRes(IF at = "idle" THEN "ok" ELSE "running", at)

canCallReviews ==
  /\ rPc = "idle"
  /\ nReviewOps < MaxReviewOps

RCall(op, arg, at) ==
  /\ rOp' = op
  /\ rArg' = arg
  /\ nReviewOps' = nReviewOps + 1
  /\ RGoTo(at)
  /\ UNCHANGED <<rOpened, rLabel, rFullVisible, rRender, imageCount, lbExists,
                 lbVisible, lbIndex, lbCounter, lbPending, rStart, rReadOp,
                 rRead, nToggle>>
  /\ UNCHANGED sliderVars
  /\ UNCHANGED formVars

toggleShowMoreLess ==
  /\ canCallReviews
  /\ ~lbExists
  /\ rClicked' = TRUE
  /\ rExpected' = toggleTarget(isExpanded)
  /\ RCall("toggleShowMoreLess", 0, "toggleWait")

expectCollapsed ==
  /\ canCallReviews
  /\ RCall("expectCollapsed", 0, assertionOrder[1])
  /\ UNCHANGED <<rClicked, rExpected>>

expectExpanded ==
  /\ canCallReviews
  /\ RCall("expectExpanded", 0, assertionOrder[1])
  /\ UNCHANGED <<rClicked, rExpected>>

clickReviewImage ==
  \E imageIndex \in 0..(MaxImages - 1) :
    /\ canCallReviews
    /\ RCall("clickReviewImage", imageIndex, "imgClick")
    /\ UNCHANGED <<rClicked, rExpected>>

closeLightbox ==
  /\ canCallReviews
  /\ RCall("closeLightbox", 0, "closeBtn")
  /\ UNCHANGED <<rClicked, rExpected>>

\* a wait or an assertion of the running operation is satisfied
reviewsProceed ==
  /\ rPc \in {"toggleWait", "class", "label", "region", "lbShown",
              "closeHidden", "closeGone"}
  /\ reviewsCondition(rPc)
  /\ RGoTo(reviewsNext(rPc))
  /\ nToggle' = IF rPc = "toggleWait" THEN nToggle + 1 ELSE nToggle
  /\ UNCHANGED <<rOpened, rLabel, rFullVisible, rClicked, rRender, imageCount,
                 lbExists, lbVisible, lbIndex, lbCounter, lbPending, rOp,
                 rArg, rExpected, rStart, rReadOp, rRead, nReviewOps>>
  /\ UNCHANGED sliderVars
  /\ UNCHANGED formVars

\* lightGalleryImages.nth(imageIndex): waitFor visible, click
clickReviewImage_click ==
  /\ rPc = "imgClick"
  /\ reviewsCondition(rPc)
  /\ PageOpenGallery(rArg)
  /\ RGoTo(reviewsNext(rPc))
  /\ UNCHANGED <<rOpened, rLabel, rFullVisible, rClicked, rRender, imageCount,
                 rOp, rArg, rExpected, rStart, rReadOp, rRead, nToggle,
                 nReviewOps>>
  /\ UNCHANGED sliderVars
  /\ UNCHANGED formVars

\* lightboxCloseButton: waitFor visible, click
closeLightbox_click ==
  /\ rPc = "closeBtn"
  /\ reviewsCondition(rPc)
  /\ lbPending' = "hide"
  /\ RGoTo(reviewsNext(rPc))
  /\ UNCHANGED <<rOpened, rLabel, rFullVisible, rClicked, rRender, imageCount,
                 lbExists, lbVisible, lbIndex, lbCounter, rOp, rArg,
                 rExpected, rStart, rReadOp, rRead, nToggle, nReviewOps>>
  /\ UNCHANGED sliderVars
  /\ UNCHANGED formVars

\* lightbox.waitFor({ state: 'hidden', timeout: 1000 }).catch(() => {})
closeLightbox_catch ==
  /\ rPc = "closeHidden"
  /\ ~reviewsCondition(rPc)
  /\ waitBound(rPc) > 0
  /\ RGoTo(reviewsNext(rPc))
  /\ UNCHANGED <<rOpened, rLabel, rFullVisible, rClicked, rRender, imageCount,
                 lbExists, lbVisible, lbIndex, lbCounter, lbPending, rOp,
                 rArg, rExpected, rStart, rReadOp, rRead, nToggle, nReviewOps>>
  /\ UNCHANGED sliderVars
  /\ UNCHANGED formVars

\* the bound of a wait or of an assertion runs out while its condition is
\* false: the operation throws and the test ends
reviewsTimeout ==
  /\ rPc \notin {"idle", "failed", "closeHidden"}
  /\ ~reviewsCondition(rPc)
  /\ waitBound(rPc) > 0
  /\ rPc' = "failed"
  /\ rRes' = RRes(reviewsFailure(rPc), rPc)
  /\ UNCHANGED <<rOpened, rLabel, rFullVisible, rClicked, rRender, imageCount,
                 lbExists, lbVisible, lbIndex, lbCounter, lbPending, rOp,
                 rArg, rExpected, rStart, rReadOp, rRead, nToggle, nReviewOps>>
  /\ UNCHANGED sliderVars
  /\ UNCHANGED formVars

\* ------------------------------------------------------- specifications
SliderInit ==
  /\ slideCount \in 1..MaxSlides
  /\ clonesBefore \in 0..MaxClones
  /\ clonesAfter \in 0..MaxClones
  /\ currentSlide = 0
  /\ previewCurrent = 0
  /\ settled = TRUE
  /\ indexAttr = "set"
  /\ sPc = "idle"
  /\ sOp = "none"
  /\ sArg = 0
  /\ sBefore = 0
  /\ sClicked = NoElement
  /\ nNext = 0
  /\ nPrev = 0
  /\ nThumb = 0
  /\ sReadOp = "none"
  /\ sRead = Ok(0)

\* a carousel in any arrangement of its markers; position -1 stands for a
\* track none of whose slides carries the current marker
SliderAnyInit ==
  /\ slideCount \in 1..MaxSlides
  /\ clonesBefore \in 0..MaxClones
  /\ clonesAfter \in 0..MaxClones
  /\ currentSlide \in (0 - 1)..(slideCount - 1)
  /\ previewCurrent \in (0 - 1)..(slideCount - 1)
  /\ settled = TRUE
  /\ indexAttr \in {"set", "empty", "absent"}
  /\ sPc = "idle"
  /\ sOp = "none"
  /\ sArg = 0
  /\ sBefore = 0
  /\ sClicked = NoElement
  /\ nNext = 0
  /\ nPrev = 0
  /\ nThumb = 0
  /\ sReadOp = "none"
  /\ sRead = Ok(0)

SliderReadNext ==
  \/ getTotalSlidesCount_call
  \/ getActiveSlideIndex_call
  \/ getActivePreviewIndex_call
  \/ expectSlidersSynchronized_call
  \/ expectActiveImagesMatch_call

SliderNext ==
  \/ clickNext
  \/ clickPrevious
  \/ clickPreviewThumbnail
  \/ waitForSlideTransition
  \/ PageSettle

FormInit ==
  /\ defect002 \in BOOLEAN
  /\ defect003 \in BOOLEAN
  /\ defect004 \in BOOLEAN
  /\ step = "zip"
  /\ pendingStep = "none"
  /\ inputValue = [f \in {"zip", "email", "phone"} |-> <<>>]
  /\ errorText = [f \in {"zip", "email", "phone"} |-> Null]
  /\ url = homeUrl
  /\ accepted = <<>>
  /\ data \in FormDataSet
  /\ fOp = "none"
  /\ fArg = "-"
  /\ fPc = Pc("idle", 0)
  /\ fRes = Res("none", Pc("idle", 0))
  /\ calls = <<>>

FormNext ==
  \/ fillForm
  \/ fillAndSubmit
  \/ submit
  \/ expectValidationError
  \/ expectThankYouRedirect
  \/ fillForm_fill
  \/ fillForm_click
  \/ submit_click
  \/ waitSatisfied
  \/ waitExpires
  \/ PageAdvance

\* the reviews section as loaded: the three signals in any combination, the
\* gallery closed
ReviewsInit ==
  /\ rOpened \in BOOLEAN
  /\ rLabel \in {showMore, showLess}
  /\ rFullVisible \in BOOLEAN
  /\ rClicked = FALSE
  /\ rRender = {}
  /\ imageCount \in 1..MaxImages
  /\ lbExists = FALSE
  /\ lbVisible = FALSE
  /\ lbIndex = 0
  /\ lbCounter = <<>>
  /\ rReadOp = "none"
  /\ rRead = Ok(0)
  /\ lbPending = "none"
  /\ rPc = "idle"
  /\ rOp = "none"
  /\ rArg = 0
  /\ rRes = RRes("none", "idle")
  /\ rExpected = FALSE
  /\ rStart = [opened |-> rOpened, label |-> rLabel, region |-> rFullVisible]
  /\ nToggle = 0
  /\ nReviewOps = 0

\* the reviews section collapsed, as the other tests leave it
ReviewsCollapsed ==
  /\ ReviewsInit
  /\ ~rOpened /\ rLabel = showMore /\ ~rFullVisible
  /\ imageCount = 1

ReviewsNext ==
  \/ toggleShowMoreLess
  \/ expectCollapsed
  \/ expectExpanded
  \/ clickReviewImage
  \/ closeLightbox
  \/ reviewsProceed
  \/ clickReviewImage_click
  \/ closeLightbox_click
  \/ closeLightbox_catch
  \/ reviewsTimeout
  \/ PageToggle
  \/ PageRender
  \/ PageLightboxShow
  \/ PageLightboxHide
  \/ PageLightboxRemove

\* the slider tests: the form is left as loaded, with the required flow
SliderTestInit ==
  /\ SliderInit
  /\ FormInit
  /\ ~defect002 /\ ~defect003 /\ ~defect004
  /\ data = validFormData
  /\ ReviewsCollapsed

\* the form tests: the carousel is left as loaded
FormTestInit ==
  /\ FormInit
  /\ SliderInit
  /\ slideCount = 1 /\ clonesBefore = 0 /\ clonesAfter = 0
  /\ ReviewsCollapsed

\* the reviews tests: the carousel and the form are left as loaded
ReviewsTestInit ==
  /\ ReviewsInit
  /\ SliderInit
  /\ slideCount = 1 /\ clonesBefore = 0 /\ clonesAfter = 0
  /\ FormInit
  /\ ~defect002 /\ ~defect003 /\ ~defect004
  /\ data = validFormData

\* reads and assertions applied to a carousel in any marker arrangement
SliderReadInit ==
  /\ SliderAnyInit
  /\ FormInit
  /\ ~defect002 /\ ~defect003 /\ ~defect004
  /\ data = validFormData
  /\ ReviewsCollapsed

SpecSliderRead == SliderReadInit /\ [][SliderReadNext]_vars

SpecSlider == SliderTestInit /\ [][SliderNext]_vars

SpecForm == FormTestInit /\ [][FormNext]_vars

\* the error-check tests: the form rests on one of its steps; the error
\* block of that step shows nothing or a message in some rendering, and the
\* blocks of the other steps, which are hidden, are empty or hold a message
ErrorCheckInit ==
  /\ SliderInit
  /\ slideCount = 1 /\ clonesBefore = 0 /\ clonesAfter = 0
  /\ ReviewsCollapsed
  /\ defect002 = FALSE /\ defect003 = FALSE /\ defect004 = FALSE
  /\ \E k \in 1..3 :
       /\ step = fieldOrder[k]
       /\ accepted = SubSeq(fieldOrder, 1, k - 1)
       /\ inputValue = [f \in {"zip", "email", "phone"} |->
                          IF \E j \in 1..(k - 1) : fieldOrder[j] = f
                          THEN validFormData[f] ELSE <<>>]
       /\ errorText \in [{"zip", "email", "phone"} ->
                           UNION {BlockTexts(f) : f \in {"zip", "email", "phone"}}]
       /\ errorText[step] \in BlockTexts(step)
       /\ \A f \in {"zip", "email", "phone"} \ {step} :
            errorText[f] \in {Null, errorMessageMap[f].invalid}
  /\ pendingStep = "none"
  /\ url = homeUrl
  /\ data = validFormData
  /\ fOp = "none"
  /\ fArg = "-"
  /\ fPc = Pc("idle", 0)
  /\ fRes = Res("none", Pc("idle", 0))
  /\ calls = <<>>

ErrorCheckNext ==
  \/ expectValidationError
  \/ waitSatisfied
  \/ waitExpires

SpecErrorCheck == ErrorCheckInit /\ [][ErrorCheckNext]_vars

SpecReviews == ReviewsTestInit /\ [][ReviewsNext]_vars

\* ------------------------------------------------------ slider properties
sliderIdle == sPc = "idle"

\* C1: starting at slide 0, k < N consecutive clickNext calls leave
\* getActiveSlideIndex() at k mod N, and k < N consecutive clickPrevious
\* calls leave it at (N - k) mod N, N being getTotalSlidesCount().
C1_SequentialNavigation ==
  sliderIdle =>
    /\ (nPrev = 0 /\ nThumb = 0 /\ nNext < getTotalSlidesCount) =>
          getActiveSlideIndex = Ok(nNext % getTotalSlidesCount)
    /\ (nNext = 0 /\ nThumb = 0 /\ nPrev < getTotalSlidesCount) =>
          getActiveSlideIndex
            = Ok((getTotalSlidesCount - nPrev) % getTotalSlidesCount)

C1_Witness ==
  /\ sliderIdle
  /\ nNext = 0 /\ nThumb = 0
  /\ nPrev = 3 /\ slideCount = 4
  /\ getActiveSlideIndex = Ok(1)

\* C2: clickNext from the last non-clone slide leaves the active index at 0
\* and clickPrevious from position 0 leaves it at N - 1, for every N >= 1
\* and every number of clones at either end of the track.
C2_Wraparound ==
  sliderIdle =>
    /\ (sOp = "next" /\ sBefore = getTotalSlidesCount - 1) =>
          getActiveSlideIndex = Ok(0)
    /\ (sOp = "previous" /\ sBefore = 0) =>
          getActiveSlideIndex = Ok(getTotalSlidesCount - 1)

C2_Witness ==
  /\ sliderIdle
  /\ sOp = "next"
  /\ slideCount = 3 /\ sBefore = 2
  /\ clonesBefore = 2 /\ clonesAfter = 1
  /\ getActiveSlideIndex = Ok(0)

\* C3: whenever the navigation calls made so far have all returned,
\* expectSlidersSynchronized and expectActiveImagesMatch both succeed.
C3_Synchronized ==
  sliderIdle =>
    /\ expectSlidersSynchronized = Ok(TRUE)
    /\ expectActiveImagesMatch = Ok(TRUE)

C3_Witness ==
  /\ sliderIdle
  /\ nNext > 0 /\ nPrev > 0 /\ nThumb > 0
  /\ currentSlide > 0
  /\ expectSlidersSynchronized = Ok(TRUE)
  /\ expectActiveImagesMatch = Ok(TRUE)

\* C4: clickPreviewThumbnail(t) clicks the non-clone thumbnail of position t
\* and, once it has returned, getActiveSlideIndex() and
\* getActivePreviewIndex() both equal t, whatever slide was active before.
C4_ThumbnailJump ==
  (sliderIdle /\ sOp = "thumb") =>
    /\ ~Has(sClicked, "slick-cloned")
    /\ Has(sClicked, "sliderPrev__item")
    /\ sClicked.index = IntToStr(sArg)
    /\ getActiveSlideIndex = Ok(sArg)
    /\ getActivePreviewIndex = Ok(sArg)

C4_Witness ==
  /\ sliderIdle /\ sOp = "thumb"
  /\ slideCount = 4 /\ sArg = 3 /\ sBefore = 1
  /\ clonesBefore = 2
  /\ getActiveSlideIndex = Ok(3)
  /\ getActivePreviewIndex = Ok(3)

\* -------------------------------------------------------- form properties
formFailed == fPc.at = "failed"

returned(op) == fOp = op /\ fPc.at = "idle" /\ fRes.status = "ok"

called(op, arg) == [op |-> op, arg |-> arg]

\* the form goes zip -> email -> phone -> terminal address
followsStepOrder == ~defect003 /\ ~defect004

\* C5: with the three valid values (phone "1234567890") on a form that
\* follows the required step order, fillAndSubmit returns without failure,
\* expectThankYouRedirect then succeeds and the address matches /thank/i.
C5_ValidSubmissionReachesTerminal ==
  (/\ followsStepOrder
   /\ data = validFormData
   /\ \/ calls = <<called("fillAndSubmit", "-")>>
      \/ calls = <<called("fillAndSubmit", "-"),
                   called("expectThankYouRedirect", "-")>>) =>
    /\ ~formFailed
    /\ fPc.at = "idle" => waitForURL

\* C6: with a valid zip, a valid email and an invalid phone, on the form
\* whose phone step fillForm reaches, fillAndSubmit completes, the following
\* expectValidationError('phone') succeeds and the address does not match
\* /thank/i.
C6_InvalidPhoneReported ==
  (/\ defect002 /\ followsStepOrder
   /\ data.zip = validZip /\ data.email = validEmail
   /\ data.phone \in invalidPhoneNumbers
   /\ \/ calls = <<called("fillAndSubmit", "-")>>
      \/ calls = <<called("fillAndSubmit", "-"),
                   called("expectValidationError", "phone")>>) =>
    /\ ~formFailed
    /\ ~waitForURL

\* C7: for f in {zip, email} and every invalid value of f, the earlier
\* fields being valid, fillForm up to f followed by expectValidationError(f)
\* succeeds and the input of the field after f stays hidden.
C7_InvalidFieldReported ==
  \A k \in 1..2 :
    (/\ data[fieldOrder[k]] \notin {Undefined, validFormData[fieldOrder[k]]}
     /\ \A j \in 1..3 : j < k => data[fieldOrder[j]] = validFormData[fieldOrder[j]]
     /\ \A j \in 1..3 : j > k => data[fieldOrder[j]] = Undefined
     /\ \/ calls = <<called("fillForm", "-")>>
        \/ calls = <<called("fillForm", "-"),
                     called("expectValidationError", fieldOrder[k])>>) =>
      /\ ~formFailed
      /\ fPc.at = "idle" =>
           /\ ~InputVisible(fieldOrder[k + 1])
           /\ pendingStep # fieldOrder[k + 1]
           /\ errorBlockVisible(fieldOrder[k])

\* the zip half of C7: an invalid zip is reported and the email input stays
\* hidden
C7_InvalidZipReported ==
  (/\ data.zip \in invalidZipCodes
   /\ data.email = Undefined /\ data.phone = Undefined
   /\ \/ calls = <<called("fillForm", "-")>>
      \/ calls = <<called("fillForm", "-"),
                   called("expectValidationError", "zip")>>) =>
    /\ ~formFailed
    /\ fPc.at = "idle" =>
         /\ ~InputVisible("email")
         /\ pendingStep # "email"
         /\ errorBlockVisible("zip")

C7_InvalidZipWitness ==
  /\ data.zip = <<"1", "2", "-", "4", "5">>
  /\ data.email = Undefined /\ data.phone = Undefined
  /\ calls = <<called("fillForm", "-"), called("expectValidationError", "zip")>>
  /\ returned("expectValidationError")
  /\ ~InputVisible("email")

zipOrWrongPattern == <<"z", "i", "p", "|", "w", "r", "o", "n", "g">>

\* errorMessages.filter({ hasText: /zip|wrong/i }).isVisible()
zipErrorVisible ==
  \E k \in 1..3 :
    /\ ErrorBlocks[k].visible
    /\ RegexTest(zipOrWrongPattern, TRUE, ErrorBlocks[k].text)

\* C8: once fillForm({zip: "12345"}) has returned, no zip-related error is
\* visible and the email input is visible or is being revealed.
C8_ValidZipAccepted ==
  (/\ data = [zip |-> validZip, email |-> Undefined, phone |-> Undefined]
   /\ calls = <<called("fillForm", "-")>>) =>
    /\ ~formFailed
    /\ fPc.at = "idle" =>
         /\ ~zipErrorVisible
         /\ InputVisible("email") \/ pendingStep = "email"

C8_Witness ==
  /\ data = [zip |-> validZip, email |-> Undefined, phone |-> Undefined]
  /\ calls = <<called("fillForm", "-")>>
  /\ returned("fillForm")
  /\ inputValue["zip"] = validZip
  /\ InputVisible("email")
  /\ ~zipErrorVisible

successReported ==
  \/ returned("submit")
  \/ returned("fillAndSubmit")
  \/ returned("expectThankYouRedirect")

\* C9: the terminal state is reported as reached (submit or fillAndSubmit
\* returns normally, expectThankYouRedirect succeeds) only after zip, email
\* and phone have been accepted, in that order.
C9_TerminalOnlyAfterPhone ==
  successReported => accepted = <<"zip", "email", "phone">>

\* C10: expectThankYouRedirect and submit succeed only if the address matches
\* /thank/i; while a thank-you is shown in place and the address does not
\* match, an operation waiting for the address can only fail.
C10_RedirectRequired ==
  /\ [](successReported => waitForURL)
  /\ [][(/\ fPc.at \in {"submitUrl", "thankUrl"}
         /\ step = "thanks"
         /\ ~RegexTest(thankPattern, TRUE, url))
        => (fPc' = fPc \/ fPc'.at = "failed")]_vars

C10_Witness ==
  /\ step = "thanks"
  /\ defect004
  /\ url = homeUrl
  /\ fOp = "expectThankYouRedirect"
  /\ formFailed
  /\ fRes = Res("TerminalNotReached", Pc("thankUrl", 0))

\* the action that commits the step of position i in the order zip, email,
\* phone: the advance action for the steps before the last, the finalize
\* action for the last
requiredCommit(i) == IF i < Len(fieldOrder) THEN "next" ELSE "submit"

\* C11: each step is committed with the action of its position: zip and
\* email with the advance ("Next") action, and the finalize ("Submit") action
\* commits the phone step only.
C11_CommitActionPerStep ==
  fPc.at = "click" => commitButton[fPc.i] = requiredCommit(fPc.i)

\* text contains msg, letters compared without regard to case and every
\* other character literally
ContainsIgnoringCase(text, msg) ==
  \E k \in 1..(Len(text) - Len(msg) + 1) :
    \A j \in 1..Len(msg) : ToLower(text[k + j - 1]) = ToLower(msg[j])

showsMessageOf(f) ==
  \E k \in 1..Len(ErrorBlocks) :
    /\ ErrorBlocks[k].visible
    /\ \/ ContainsIgnoringCase(ErrorBlocks[k].text, errorMessageMap[f].empty)
       \/ ContainsIgnoringCase(ErrorBlocks[k].text, errorMessageMap[f].invalid)

\* C12: expectValidationError(field) returns normally exactly when a visible
\* error block holds a text containing the field's empty message or its
\* invalid-format message, letters compared case-insensitively and
\* punctuation literally; when no such block shows, it fails.
C12_ErrorCheckMatchesMessages ==
  /\ (fOp = "expectValidationError" /\ fPc.at = "idle") =>
        (fRes.status = "ok" /\ showsMessageOf(fArg))
  /\ (fOp = "expectValidationError" /\ formFailed) =>
        (fRes.status = "AssertionMismatch" /\ ~showsMessageOf(fArg))

C12_Witness ==
  /\ step = "email"
  /\ errorText["email"] = Render("upper", errorMessageMap["email"].empty)
  /\ errorText["zip"] = errorMessageMap["zip"].invalid
  /\ calls = <<called("expectValidationError", "email"),
               called("expectValidationError", "zip")>>
  /\ formFailed
  /\ fRes.status = "AssertionMismatch"

\* ------------------------------------------------------ reviews properties
succeeded(op) == rOp = op /\ rPc = "idle" /\ rRes.status = "ok"

\* the section was loaded collapsed or expanded, its three signals agreeing
startConsistent ==
  /\ rStart.label = labelFor(rStart.opened)
  /\ rStart.region = rStart.opened

\* the page has no click to handle and nothing left to render
reviewsAtRest == ~rClicked /\ rRender = {}

signalsExpanded == isExpanded /\ rLabel = showLess /\ rFullVisible

signalsCollapsed == ~isExpanded /\ rLabel = showMore /\ ~rFullVisible

\* C14: expectExpanded returns normally only with the class set, the label
\* "Show less" and the detail region visible, expectCollapsed only with the
\* class absent, the label "Show more" and the region hidden; each fails only
\* when its three signals do not all hold, and on a page at rest in one of the
\* six states where the signals disagree neither can return normally.
C14_ThreeSignalsAgree ==
  /\ [](succeeded("expectExpanded") => signalsExpanded)
  /\ [](succeeded("expectCollapsed") => signalsCollapsed)
  /\ [][(rPc # "failed" /\ rPc' = "failed") =>
          /\ rOp = "expectExpanded" => ~signalsExpanded
          /\ rOp = "expectCollapsed" => ~signalsCollapsed]_vars
  /\ [][(/\ rOp \in {"expectExpanded", "expectCollapsed"}
         /\ rPc \in {"class", "label", "region"}
         /\ reviewsAtRest
         /\ ~signalsExpanded /\ ~signalsCollapsed) => rPc' # "idle"]_vars

C14_Witness ==
  /\ rOp = "expectCollapsed"
  /\ rPc = "failed"
  /\ rRes = RRes("AssertionMismatch", "region")
  /\ nToggle = 0
  /\ reviewsAtRest
  /\ ~isExpanded /\ rLabel = showMore /\ rFullVisible

\* C15: once clickReviewImage(0) has returned the overlay is visible, the
\* counter reads position 1 and a total of at least 1; once a following
\* closeLightbox has returned the overlay is not visible; closeLightbox never
\* returns normally while an element carries both lg-outer and lg-visible.
C15_GalleryOpenClose ==
  /\ [](succeeded("clickReviewImage") =>
          /\ lightboxVisible
          /\ getCurrentImageIndex = Ok(rArg + 1)
          /\ getTotalImageCount.ok /\ getTotalImageCount.val >= 1)
  /\ [](succeeded("closeLightbox") => ~lightboxVisible)
  /\ [][(rOp = "closeLightbox" /\ rPc # "idle" /\ rPc' = "idle") =>
          ~(lbExists' /\ lbVisible')]_vars

C15_Witness ==
  /\ succeeded("closeLightbox")
  /\ nReviewOps = 2
  /\ lbExists /\ ~lbVisible
  /\ ~lightboxVisible

\* ------------------------------------------------- slider read properties
\* C16: getTotalSlidesCount is the number of logical slides, whatever the
\* number of clones before the first and after the last slide.
C16_TotalExcludesClones ==
  /\ getTotalSlidesCount = slideCount
  /\ getTotalSlidesCount
       = Cardinality({k \in 1..Len(MainDom) : ~Has(MainDom[k], "slick-cloned")})

C16_Witness ==
  /\ sliderIdle
  /\ nNext > 0
  /\ slideCount = 3 /\ clonesBefore = 2 /\ clonesAfter = 1
  /\ Len(MainDom) = 6
  /\ getTotalSlidesCount = 3

noCurrentMarker(dom) == \A k \in 1..Len(dom) : ~Has(dom[k], "slick-current")

\* C17: getActiveSlideIndex and getActivePreviewIndex throw ElementNotFound,
\* and return no value, whenever no element of their carousel carries the
\* current marker.
C17_NoMarkerFails ==
  /\ (sReadOp = "getActiveSlideIndex" /\ noCurrentMarker(MainDom)) =>
        sRead = Fail("ElementNotFound")
  /\ (sReadOp = "getActivePreviewIndex" /\ noCurrentMarker(PreviewDom)) =>
        sRead = Fail("ElementNotFound")

C17_Witness ==
  /\ sReadOp = "getActiveSlideIndex"
  /\ slideCount = 3 /\ clonesBefore = 1
  /\ noCurrentMarker(MainDom)
  /\ ~noCurrentMarker(PreviewDom)
  /\ sRead = Fail("ElementNotFound")

\* C18: with an active slide in both carousels, expectActiveImagesMatch
\* succeeds exactly when the two active images have the same base name; the
\* token of a reference is its last path segment up to the first full stop,
\* so references that differ in directory, content hash and extension give
\* the same token and different base names give different tokens.
C18_ImageIdentityToken ==
  /\ \A i \in 0..(slideCount - 1) :
       /\ imageFilename(MainSrc(i)) = BaseName(i)
       /\ imageFilename(PreviewSrc(i)) = BaseName(i)
       /\ \A j \in 0..(slideCount - 1) :
            (imageFilename(MainSrc(i)) = imageFilename(PreviewSrc(j))) = (i = j)
  /\ (/\ sReadOp = "expectActiveImagesMatch"
      /\ ~noCurrentMarker(MainDom) /\ ~noCurrentMarker(PreviewDom)) =>
        /\ (sRead = Ok(TRUE)) = (currentSlide = previewCurrent)
        /\ (sRead = Fail("AssertionMismatch")) = (currentSlide # previewCurrent)

C18_Witness ==
  /\ sReadOp = "expectActiveImagesMatch"
  /\ currentSlide = 2 /\ previewCurrent = 1
  /\ sRead = Fail("AssertionMismatch")

\* the position the operation last called is to leave the carousel on
clickTarget ==
  CASE sOp = "next" -> Mod(sBefore + 1, slideCount)
    [] sOp = "previous" -> Mod(sBefore - 1, slideCount)
    [] OTHER -> sArg

\* C19: when clickNext, clickPrevious or clickPreviewThumbnail has returned,
\* getActiveSlideIndex reports the position the click leads to and, for an
\* arrow click on a carousel of two or more slides, not the position read
\* before the call; the active slide is then at full opacity, however the
\* fade of the page interleaves with the settle-wait.
C19_EffectObservableAtReturn ==
  (sliderIdle /\ sOp # "none") =>
    /\ getActiveSlideIndex = Ok(clickTarget)
    /\ (slideCount >= 2 /\ sOp \in {"next", "previous"}) =>
          getActiveSlideIndex # Ok(sBefore)
    /\ \A k \in 1..Len(MainDom) :
         Has(MainDom[k], "slick-current") => MainDom[k].opacity = 1

C19_Witness ==
  /\ sliderIdle
  /\ sOp = "previous"
  /\ slideCount = 2
  /\ sBefore = 0
  /\ nNext + nPrev + nThumb = 3
  /\ getActiveSlideIndex = Ok(1)
  /\ settled

\* C20: fillForm writes a value only into the input it has awaited and found
\* visible, after the values of the fields before it in the order zip, email,
\* phone; when the awaited input does not become visible the operation ends
\* with FieldNotReached for that field, and nothing is filled or clicked
\* after that.
C20_FillOrderAndFieldNotReached ==
  /\ [][inputValue' # inputValue =>
          /\ fPc.at = "wait"
          /\ InputVisible(<<"zip", "email", "phone">>[fPc.i])
          /\ inputValue' = [inputValue EXCEPT
               ![<<"zip", "email", "phone">>[fPc.i]] =
                    data[<<"zip", "email", "phone">>[fPc.i]]]
          /\ \A j \in 1..(fPc.i - 1) :
               data[<<"zip", "email", "phone">>[j]] # Undefined =>
                 inputValue[<<"zip", "email", "phone">>[j]]
                   = data[<<"zip", "email", "phone">>[j]]]_vars
  /\ [][(fPc.at = "wait" /\ fPc'.at = "failed") =>
          /\ ~InputVisible(<<"zip", "email", "phone">>[fPc.i])
          /\ fRes' = [status |-> "FieldNotReached", at |-> "wait", i |-> fPc.i]]_vars
  /\ [][fPc.at = "failed" =>
          UNCHANGED <<inputValue, errorText, accepted, step, pendingStep,
                      url, fPc, fRes>>]_vars

C20_Witness ==
  /\ data.zip = <<"1", "2", "3", "4">>
  /\ data.email = validEmail
  /\ calls = <<called("fillForm", "-")>>
  /\ formFailed
  /\ fRes = [status |-> "FieldNotReached", at |-> "wait", i |-> 2]
  /\ inputValue["zip"] = data.zip
  /\ inputValue["email"] = <<>>

\* ---------------------------------------------------------- counter texts
\* runs of white space: blanks up to the bound, a tab, a line feed and blank
WhiteRuns ==
  {[k \in 1..n |-> " "] : n \in 0..MaxPad} \cup {<<"\t">>, <<"\n", " ">>}

\* the texts "m / n" in every spacing
CounterForms(m, n) ==
  {lead \o IntToStr(m) \o before \o <<"/">> \o after \o IntToStr(n) \o trail :
     lead \in WhiteRuns, before \in WhiteRuns, after \in WhiteRuns,
     trail \in WhiteRuns}

\* the overlay is open on image lbIndex of imageCount images and its counter
\* shows the position and the total in some spacing
CounterInit ==
  /\ SliderInit
  /\ slideCount = 1 /\ clonesBefore = 0 /\ clonesAfter = 0
  /\ FormInit
  /\ ~defect002 /\ ~defect003 /\ ~defect004
  /\ data = validFormData
  /\ rOpened = FALSE
  /\ rLabel = showMore
  /\ rFullVisible = FALSE
  /\ rClicked = FALSE
  /\ rRender = {}
  /\ imageCount \in 1..MaxCounter
  /\ lbExists = TRUE
  /\ lbVisible = TRUE
  /\ lbIndex \in 0..(imageCount - 1)
  /\ lbPending = "none"
  /\ lbCounter \in CounterForms(lbIndex + 1, imageCount)
  /\ rPc = "idle"
  /\ rOp = "clickReviewImage"
  /\ rArg = lbIndex
  /\ rRes = RRes("ok", "idle")
  /\ rExpected = FALSE
  /\ rStart = [opened |-> FALSE, label |-> showMore, region |-> FALSE]
  /\ nToggle = 0
  /\ nReviewOps = 1
  /\ rReadOp = "none"
  /\ rRead = Ok(0)

CounterNext ==
  \/ getCurrentImageIndex_call
  \/ getTotalImageCount_call

SpecCounter == CounterInit /\ [][CounterNext]_vars

\* the gallery tests: images are opened and closed and the counter is read
GalleryNext ==
  \/ clickReviewImage
  \/ clickReviewImage_click
  \/ closeLightbox
  \/ closeLightbox_click
  \/ closeLightbox_catch
  \/ reviewsProceed
  \/ reviewsTimeout
  \/ getCurrentImageIndex_call
  \/ getTotalImageCount_call
  \/ PageLightboxShow
  \/ PageLightboxHide
  \/ PageLightboxRemove

SpecGallery == ReviewsTestInit /\ [][GalleryNext]_vars

\* ------------------------------------------------------------ termination
\* a test exercises one component; the other two are left as loaded and the
\* calls the test may make on them are spent
SliderSpent ==
  /\ slideCount = 1 /\ clonesBefore = 0 /\ clonesAfter = 0
  /\ currentSlide = 0
  /\ previewCurrent = 0
  /\ settled = TRUE
  /\ indexAttr = "set"
  /\ sPc = "idle"
  /\ sOp = "none"
  /\ sArg = 0
  /\ sBefore = 0
  /\ sClicked = NoElement
  /\ nNext = MaxNav
  /\ nPrev = 0
  /\ nThumb = 0
  /\ sReadOp = "none"
  /\ sRead = Ok(0)

FormSpent ==
  /\ defect002 = FALSE /\ defect003 = FALSE /\ defect004 = FALSE
  /\ step = "zip"
  /\ pendingStep = "none"
  /\ inputValue = [f \in {"zip", "email", "phone"} |-> <<>>]
  /\ errorText = [f \in {"zip", "email", "phone"} |-> Null]
  /\ url = homeUrl
  /\ accepted = <<>>
  /\ data = validFormData
  /\ fOp = "none"
  /\ fArg = "-"
  /\ fPc = Pc("idle", 0)
  /\ fRes = Res("none", Pc("idle", 0))
  /\ calls = [k \in 1..MaxFormOps |-> [op |-> "none", arg |-> "-"]]

ReviewsSpent ==
  /\ rOpened = FALSE
  /\ rLabel = showMore
  /\ rFullVisible = FALSE
  /\ rClicked = FALSE
  /\ rRender = {}
  /\ imageCount = 1
  /\ lbExists = FALSE
  /\ lbVisible = FALSE
  /\ lbIndex = 0
  /\ lbCounter = <<>>
  /\ rReadOp = "none"
  /\ rRead = Ok(0)
  /\ lbPending = "none"
  /\ rPc = "idle"
  /\ rOp = "none"
  /\ rArg = 0
  /\ rRes = RRes("none", "idle")
  /\ rExpected = FALSE
  /\ rStart = [opened |-> FALSE, label |-> showMore, region |-> FALSE]
  /\ nToggle = 0
  /\ nReviewOps = MaxReviewOps

TerminationInit ==
  \/ /\ SliderInit
     /\ clonesBefore = clonesAfter
     /\ FormSpent
     /\ ReviewsSpent
  \/ /\ SliderSpent
     /\ FormInit
     /\ ReviewsSpent
  \/ /\ SliderSpent
     /\ FormSpent
     /\ ReviewsInit

\* the steps of the three components, every wait with its expiry on a page
\* that may never do what the operation waits for
TerminationNext ==
  \/ clickNext
  \/ clickPrevious
  \/ clickPreviewThumbnail
  \/ waitForSlideTransition
  \/ waitForSlideTransition_timeout
  \/ PageSettle
  \/ fillForm
  \/ fillAndSubmit
  \/ submit
  \/ expectValidationError
  \/ expectThankYouRedirect
  \/ fillForm_fill
  \/ fillForm_click
  \/ submit_click
  \/ waitSatisfied
  \/ waitExpires_anyPage
  \/ PageAdvance
  \/ ReviewsNext

\* the runtime resumes a suspended operation once its wait is satisfied or
\* its bound is over; nothing is assumed of the page
sliderResumes == waitForSlideTransition \/ waitForSlideTransition_timeout

formResumes ==
  \/ fillForm_fill
  \/ fillForm_click
  \/ submit_click
  \/ waitSatisfied
  \/ waitExpires_anyPage

reviewsResumes ==
  \/ reviewsProceed
  \/ clickReviewImage_click
  \/ closeLightbox_click
  \/ closeLightbox_catch
  \/ reviewsTimeout

SpecTermination ==
  /\ TerminationInit
  /\ [][TerminationNext]_vars
  /\ WF_vars(sliderResumes)
  /\ WF_vars(formResumes)
  /\ WF_vars(reviewsResumes)

sliderOver == sPc \in {"idle", "failed"}

formOver == fPc.at \in {"idle", "failed"}

reviewsOver == rPc \in {"idle", "failed"}

\* C22: every operation of the three components, once called, returns or
\* ends in a timeout failure whatever the page does, and an operation is
\* ended as failed only by the expiry of the bound of the wait it is
\* suspended on, while what it waits for is absent.
C22_OperationsTerminate ==
  /\ (~sliderOver) ~> sliderOver
  /\ (~formOver) ~> formOver
  /\ (~reviewsOver) ~> reviewsOver
  /\ [][/\ (~sliderOver /\ sPc' = "failed") => ~transitionComplete
        /\ (~formOver /\ fPc'.at = "failed") => ~waitCondition(fPc)
        /\ (~reviewsOver /\ rPc' = "failed") => ~reviewsCondition(rPc)]_vars

\* a navigation has ended in a timeout on a carousel whose fade never ended
C22_Witness ==
  /\ sPc = "failed"
  /\ ~settled
  /\ sOp \in {"next", "previous", "thumb"}

\* C21: an operation whose wait expires, or whose awaited element is absent,
\* aborts there and throws to its caller: no operation moves on to its next
\* step while the condition it is suspended on is false.
C21_NoSilentRecovery ==
  [][(/\ rPc \notin {"idle", "failed"}
      /\ ~reviewsCondition(rPc)
      /\ rPc' # rPc) => rPc' = "failed"]_vars



C24_CounterParsed ==
  \A m \in 1..MaxCounter, n \in 1..MaxCounter :
    (m = lbIndex + 1 /\ n = imageCount /\ lbCounter \in CounterForms(m, n))
      => /\ rReadOp = "getCurrentImageIndex" => rRead = Ok(m)
         /\ rReadOp = "getTotalImageCount" => rRead = Ok(n)

\* the total has been read from a two-digit counter set off by a tab
C24_Witness ==
  /\ rReadOp = "getTotalImageCount"
  /\ rRead = Ok(MaxCounter)
  /\ lbIndex + 1 >= 10
  /\ \E k \in 1..Len(lbCounter) : lbCounter[k] = "\t"

\* C25: whenever the gallery overlay is open, getCurrentImageIndex reports
\* a position from 1 to the total reported by getTotalImageCount, never 0
\* and never the total plus one.
C25_PositionWithinTotal ==
  lightboxVisible
    => /\ getCurrentImageIndex.ok
       /\ getTotalImageCount.ok
       /\ getCurrentImageIndex.val >= 1
       /\ getCurrentImageIndex.val <= getTotalImageCount.val
       /\ (rReadOp = "getCurrentImageIndex" /\ rRead.ok)
            => rRead.val \in 1..getTotalImageCount.val

\* the overlay is open on the last image and the getter has reported it
C25_Witness ==
  /\ lightboxVisible
  /\ imageCount > 1
  /\ lbIndex = imageCount - 1
  /\ rReadOp = "getCurrentImageIndex"
  /\ rRead = Ok(imageCount)

\* C26: after clickNext has brought the carousel to logical slide i,
\* expectSlideImageLoaded(i) looks at the image of the slide that is no clone
\* and has logical position i, however many clones precede the first slide.
C26_ImageCheckOnLogicalSlide ==
  (sPc = "idle" /\ sOp = "next" /\ getActiveSlideIndex.ok)
    => LET i == getActiveSlideIndex.val
       IN /\ slideChecked(i) # <<>>
          /\ ~Has(slideChecked(i)[1], "slick-cloned")
          /\ slideChecked(i)[1].index = IntToStr(i)
          /\ expectSlideImageLoaded(i).ok

\* C27: fillForm acts on a field exactly when the data defines it: a
\* defined field, the empty string included, is waited for, filled with its
\* value and committed; an undefined field is not waited for, filled or
\* committed; the fields are taken in the order zip, email, phone.
C27_ActsOnDefinedFields ==
  /\ [](fPc.at \in {"wait", "click"} => data[fieldOrder[fPc.i]] # Undefined)
  /\ [][(fPc.at = "wait" /\ fPc' # fPc /\ fPc'.at # "failed")
         => /\ inputValue'[fieldOrder[fPc.i]] = data[fieldOrder[fPc.i]]
            /\ fPc' = Pc("click", fPc.i)]_vars
  /\ [][(fPc.at \in {"wait", "click"} /\ fPc' # fPc /\ fPc'.at = "wait")
         => /\ fPc'.i > fPc.i
            /\ \A k \in (fPc.i + 1)..(fPc'.i - 1) :
                 data[fieldOrder[k]] = Undefined]_vars

\* no configured message of a field matches the pattern of another field
noMessageOfAnotherField ==
  \A f \in {"zip", "email", "phone"} :
    \A g \in {"zip", "email", "phone"} \ {f} :
      \A m \in {"invalid", "empty"} :
        ~RegexTest(combinedRegex(f), TRUE, errorMessageMap[g][m])

\* C28: expectValidationError is specific to its field: none of the six
\* configured messages satisfies the pattern of another field, and a check
\* of field f made while the only visible error block is that of another
\* field g showing one of g's messages fails.
C28_ErrorCheckFieldSpecific ==
  /\ noMessageOfAnotherField
  /\ (/\ fOp = "expectValidationError"
      /\ fPc.at \in {"idle", "failed"}
      /\ step # fArg
      /\ showsMessageOf(step))
       => (formFailed /\ fRes.status = "AssertionMismatch")

\* the email check has failed on the zip step showing its empty message,
\* the hidden email block still holding an email message
C28_Witness ==
  /\ step = "zip"
  /\ errorText["zip"] = errorMessageMap["zip"].empty
  /\ errorText["email"] = errorMessageMap["email"].invalid
  /\ fOp = "expectValidationError"
  /\ fArg = "email"
  /\ formFailed
  /\ fRes.status = "AssertionMismatch"

\* C29: getActiveSlideIndex and getActivePreviewIndex, when they return,
\* return the integer the index attribute of the current element denotes,
\* and -1 exactly when that attribute is absent or empty; position 0 is
\* returned as 0.
C29_IndexOrMinusOne ==
  /\ (sReadOp = "getActiveSlideIndex" /\ sRead.ok) =>
        /\ (sRead.val = 0 - 1) <=> (getActiveSlide[1].index \in {Null, <<>>})
        /\ getActiveSlide[1].index \notin {Null, <<>>} =>
              sRead.val = currentSlide
  /\ (sReadOp = "getActivePreviewIndex" /\ sRead.ok) =>
        /\ (sRead.val = 0 - 1)
              <=> (getActivePreviewSlide[1].index \in {Null, <<>>})
        /\ getActivePreviewSlide[1].index \notin {Null, <<>>} =>
              sRead.val = previewCurrent

\* the first slide of several is current, its attribute reads "0" and the
\* getter has returned 0
C29_Witness ==
  /\ sReadOp = "getActiveSlideIndex"
  /\ slideCount > 1
  /\ currentSlide = 0
  /\ getActiveSlide[1].index = <<"0">>
  /\ sRead = Ok(0)

\* C30: FormPage and FormComponent are the same controller: on every form
\* and for every FormData, each step a FormPage operation takes is the step
\* FormComponent takes at that point: it starts at the same place, waits on
\* the same condition of the same element, writes the same value, goes on
\* to the same place and fails at the same waits.
C30_SameController ==
  /\ [](/\ FormComponent_locators = locators
        /\ \A f \in {"zip", "email", "phone"} :
             FormComponent_combinedRegex(f) = combinedRegex(f))
  /\ [](fPc.at \notin {"idle", "failed"}
          => /\ FormComponent_target(fPc) = target(fPc)
             /\ FormComponent_waitCondition(fPc) = waitCondition(fPc))
  /\ [][fPc' # fPc
         => IF fPc.at = "idle" THEN fPc' = FormComponent_entry(fOp')
            ELSE IF fPc'.at = "failed" THEN ~FormComponent_waitCondition(fPc)
            ELSE /\ FormComponent_waitCondition(fPc)
                 /\ fPc' = FormComponent_next(fPc, fOp)
                 /\ fPc.at = "wait" =>
                      inputValue'[FormComponent_fieldOrder[fPc.i]]
                        = data[FormComponent_fieldOrder[fPc.i]]]_vars

\* fillAndSubmit has filled the email and is about to commit the step with
\* the button both classes click there
C30_Witness ==
  /\ fOp = "fillAndSubmit"
  /\ fPc = Pc("click", 2)
  /\ inputValue["email"] = data["email"]
  /\ FormComponent_target(fPc) = locators.submit
  /\ FormComponent_next(fPc, fOp) = Pc("wait", 3)

====
